---- MODULE Spec2Model ----
(***************************************************************************)
(* Model of the qscript annotation micro-language and of the cross-coder   *)
(* comparator (qscript/annotations.py, qscript/cmd/compare_codings.py).    *)
(*                                                                         *)
(* Python strings that are parsed by regular expressions are modelled as   *)
(* sequences of one-character strings, so that the regular expressions     *)
(* are modelled by what they match.  Strings that are only compared for    *)
(* equality (sentences, fixed message texts) are TLA+ strings.             *)
(***************************************************************************)
EXTENDS Integers, Sequences, FiniteSets, TLC

(***************************************************************************)
(* Bounds of the model.                                                    *)
(***************************************************************************)
\* longest AnnotatedSentence sequence of one file
MaxLen == 3

\* Largest number of lines of the who/what file
MaxLines == 2

(***************************************************************************)
(* Characters and character classes of the regular expressions.            *)
(***************************************************************************)
Digits == <<"0", "1", "2", "3", "4", "5", "6", "7", "8", "9">>

DigitChars == {Digits[k] : k \in 1..Len(Digits)}

LetterChars ==
    {"a", "b", "c", "d", "e", "f", "g", "i", "n", "o", "q", "r", "s", "u", "x"}

\* \w
WordChars == LetterChars \cup DigitChars \cup {"_"}

\* [\w-]
CodeChars == WordChars \cup {"-"}

\* \s
SpaceChars == {" "}

Range(s) == {s[k] : k \in 1..Len(s)}

Abs(x) == IF x < 0 THEN -x ELSE x

min(a, b) == IF a <= b THEN a ELSE b

\* A local variable: Body is evaluated with its parameter bound to value.
With(value, Body(_)) == Body(value)

\* End (exclusive) of the longest run of characters of class cls that starts
\* at position p of s: what a greedy  [cls]*  consumes.
RunEnd(s, p, cls) ==
    CHOOSE q \in p..(Len(s) + 1) :
        /\ \A k \in p..(q - 1) : s[k] \in cls
        /\ (q = Len(s) + 1 \/ s[q] \notin cls)

\* int() of a non-empty string of decimal digits
RECURSIVE int(_)
int(ds) ==
    IF ds = <<>> THEN 0
    ELSE 10 * int(SubSeq(ds, 1, Len(ds) - 1))
         + ((CHOOSE k \in 1..Len(Digits) : Digits[k] = ds[Len(ds)]) - 1)

(***************************************************************************)
(* Codebook                                                                *)
(***************************************************************************)
IGNORECODE == <<"-", "i", "g", "n", "o", "r", "e", "d", "i", "f", "f">>

\* The set Codebook.codes as _allowed_codes returns it for the codebook of
\* the model: `a` never takes a suffix, `b` takes an IU suffix, `c` takes a
\* U suffix, `-ignorediff` and `-x` are extra codes.
codes ==
    { <<"a">>,
      <<"b", ":", "i", "u">>,
      <<"c", ":", "u">>,
      IGNORECODE,
      <<"-", "x">> }

exists_bare(code) == code \in codes

exists_with_iu_suffix(coding) == (coding \o <<":", "i", "u">>) \in codes

exists_with_u_suffix(coding) == (coding \o <<":", "u">>) \in codes

exists_with_suffix(coding) ==
    exists_with_iu_suffix(coding) \/ exists_with_u_suffix(coding)

is_extra_code(code) == Len(code) >= 1 /\ code[1] = "-"

\* "subjective code: an extra code other than the designated
\* ignore-differences sentinel code"
is_subjective_code(code) == is_extra_code(code) /\ code # IGNORECODE

(***************************************************************************)
(* Inputs: annotation texts                                                *)
(***************************************************************************)
Ann(body) == <<"{", "{">> \o body \o <<"}", "}">>

Sep == <<",", " ">>

cA == <<"a">>

cX == <<"-", "x">>

cB(sfx) == <<"b">> \o sfx

cC(sfx) == <<"c">> \o sfx

\* The annotation texts the coders' files are drawn from.
AnnotationPool ==
    { Ann(<<>>),                                                \* {{}}
      Ann(<<" ">>),                                             \* {{ }}
      Ann(cA),                                                  \* {{a}}
      Ann(cA \o Sep \o cX),                                     \* {{a, -x}}
      Ann(IGNORECODE),                                          \* {{-ignorediff}}
      Ann(cA \o Sep \o IGNORECODE),                             \* {{a, -ignorediff}}
      Ann(cA \o Sep \o cB(<<":", "i", "2">>)),                  \* {{a, b:i2}}
      Ann(cB(<<":", "i", "2">>) \o Sep \o cA \o Sep \o cA),     \* {{b:i2, a, a}}
      Ann(cA \o Sep \o cB(<<":", "i", "5">>)),                  \* {{a, b:i5}}
      Ann(cA \o Sep \o cB(<<":", "i", "2", "u", "5">>)),        \* {{a, b:i2u5}}
      Ann(cB(<<":", "u", "1", "0">>) \o Sep \o cC(<<":", "u", "1">>)),  \* {{b:u10, c:u1}}
      Ann(cC(<<":", "u", "7">>) \o Sep \o cB(<<>>)),            \* {{c:u7, b}}
      Ann(cA \o Sep \o cB(<<":", "i", "2">>) \o Sep \o cB(<<":", "i", "2">>))  \* {{a, b:i2, b:i2}}
    }

(***************************************************************************)
(* Annotations: parsing                                                    *)
(***************************************************************************)
\* re.findall(ANNOTATION_CONTENT_REGEXP, s) with
\* ANNOTATION_CONTENT_REGEXP = ([\w-]+)(:[\w\d]*)?  : the sequence of
\* <<code, csuffix>> pairs, scanning from position p.
RECURSIVE findall_content_from(_, _)
findall_content_from(s, p) ==
    IF p > Len(s) THEN <<>>
    ELSE IF s[p] \notin CodeChars THEN findall_content_from(s, p + 1)
    ELSE LET q == RunEnd(s, p, CodeChars)
             r == IF q <= Len(s) /\ s[q] = ":"
                  THEN RunEnd(s, q + 1, WordChars)
                  ELSE q
         IN  <<  <<SubSeq(s, p, q - 1), SubSeq(s, q, r - 1)>>  >>
             \o findall_content_from(s, r)

\* The matches of the annotation texts of the pool, computed once
findall_content_pool == [a \in AnnotationPool |-> findall_content_from(a, 1)]

findall_content(s) ==
    IF s \in DOMAIN findall_content_pool
    THEN findall_content_pool[s]
    ELSE findall_content_from(s, 1)

\* Whether  re.findall(r"([\w-]+):(\d+)", s)  finds anything.
findall_code_colon_digits_nonempty(s) ==
    \E q \in 2..(Len(s) - 1) :
        s[q - 1] \in CodeChars /\ s[q] = ":" /\ s[q + 1] \in DigitChars

\* mutant: EMPTY_ANNOTATION_REGEXP without the \s*
is_empty_annotation_no_blanks(annotation) == annotation = <<"{", "{", "}", "}">>

\* re.match(EMPTY_ANNOTATION_REGEXP, annotation) is not None, with
\* EMPTY_ANNOTATION_REGEXP = \{\{\s*\}\}
is_empty_annotation(annotation) ==
    /\ Len(annotation) >= 4
    /\ annotation[1] = "{" /\ annotation[2] = "{"
    /\ LET q == RunEnd(annotation, 3, SpaceChars)
       IN  q + 1 <= Len(annotation) /\ annotation[q] = "}" /\ annotation[q + 1] = "}"

\* mutant: strip_suffixes is not honoured
codings_of_with_suffixes(annotation, strip_suffixes) ==
    { m[1] \o m[2] : m \in Range(findall_content(annotation)) }

\* mutant: the suffix is put behind the code twice
codings_of_suffix_twice(annotation, strip_suffixes) ==
    { m[1] \o (IF strip_suffixes THEN <<>> ELSE m[2] \o m[2]) :
        m \in Range(findall_content(annotation)) }

\* Annotations.codings_of(annotation, strip_suffixes)
codings_of(annotation, strip_suffixes) ==
    { m[1] \o (IF strip_suffixes THEN <<>> ELSE m[2]) :
        m \in Range(findall_content(annotation)) }

\* the code of a coding: what stands before the csuffix
code_of(coding) == SubSeq(coding, 1, RunEnd(coding, 1, CodeChars) - 1)

\* codings_of(annotation, strip_suffixes, strip_subjective) as the comparator
\* calls it: with strip_subjective the codings of subjective codes are left
\* out of the set.
codings_of_stripped(annotation, strip_suffixes, strip_subjective) ==
    { coding \in codings_of(annotation, strip_suffixes) :
        ~(strip_subjective /\ is_subjective_code(code_of(coding))) }

\* Result of a call that either returns a value or raises.
Returns(v) == [raised |-> "", value |-> v]

Raises(exc) == [raised |-> exc, value |-> <<>>]

\* Where the optional group  (?:x(\d+))?  ends that starts at position p of s,
\* for the letter x: behind the digits, or at p when the group is absent.
group_end(s, p, letter) ==
    IF p + 1 <= Len(s) /\ s[p] = letter /\ s[p + 1] \in DigitChars
    THEN RunEnd(s, p + 1, DigitChars)
    ELSE p

\* mutant: the u group is not read
split_suffix_without_u(suffix) ==
    IF suffix = <<>> THEN Returns(<<0, 0>>)
    ELSE
    With(IF suffix[1] = ":" THEN 2 ELSE 1, LAMBDA p1 :
    With(group_end(suffix, p1, "i"), LAMBDA p2 :
    With(group_end(suffix, p2, "u"), LAMBDA p3 :
        IF p3 = Len(suffix) + 1
        THEN Returns(<< IF p2 > p1 THEN int(SubSeq(suffix, p1 + 1, p2 - 1)) ELSE 0,
                        0 >>)
        ELSE Raises("AttributeError") )))

\* Annotations.split_suffix with
\* SPLIT_SUFFIX_REGEXP = :?(?:i(\d+))?(?:u(\d+))?  (fullmatch).
\* A suffix that does not match makes mm None and mm.group raise.
\* p1 is where the i group may start, p2 where it ends and the u group may
\* start, p3 where the u group ends; a group that matches nothing ends where
\* it starts.
split_suffix(suffix) ==
    IF suffix = <<>> THEN Returns(<<0, 0>>)
    ELSE
    With(IF suffix[1] = ":" THEN 2 ELSE 1, LAMBDA p1 :
    With(group_end(suffix, p1, "i"), LAMBDA p2 :
    With(group_end(suffix, p2, "u"), LAMBDA p3 :
        IF p3 = Len(suffix) + 1
        THEN Returns(<< IF p2 > p1 THEN int(SubSeq(suffix, p1 + 1, p2 - 1)) ELSE 0,
                        IF p3 > p2 THEN int(SubSeq(suffix, p2 + 1, p3 - 1)) ELSE 0 >>)
        ELSE Raises("AttributeError") )))

(***************************************************************************)
(* Python dicts (insertion-ordered) as sequences of <<key, value>> pairs.  *)
(***************************************************************************)
dict_has(d, key) == \E k \in 1..Len(d) : d[k][1] = key

dict_get(d, key) == d[CHOOSE k \in 1..Len(d) : d[k][1] = key][2]

\* d[key] = value : a new key is appended, an old key keeps its place
dict_set(d, key, value) ==
    IF dict_has(d, key)
    THEN [k \in 1..Len(d) |-> IF d[k][1] = key THEN <<key, value>> ELSE d[k]]
    ELSE Append(d, <<key, value>>)

\* First loop of codes_with_suffixes, from match k of the matches ms of
\* annotation1 on: result[code] = self.split_suffix(csuffix)
RECURSIVE codes_with_suffixes_loop1(_, _, _)
codes_with_suffixes_loop1(ms, k, result) ==
    IF k > Len(ms) THEN Returns(result)
    ELSE IF ~exists_with_suffix(ms[k][1])
         THEN codes_with_suffixes_loop1(ms, k + 1, result)
    ELSE With(split_suffix(ms[k][2]), LAMBDA counts :
             IF counts.raised # "" THEN Raises(counts.raised)
             ELSE codes_with_suffixes_loop1(ms, k + 1,
                                            dict_set(result, ms[k][1], counts.value)))

\* Second loop, over the matches of annotation2:
\*   icount1, ucount1 = result[code]
\*   icount2, ucount2 = self.split_suffix(csuffix)
\*   result[code] = (icount1, ucount1, icount2, ucount2)
RECURSIVE codes_with_suffixes_loop2(_, _, _)
codes_with_suffixes_loop2(ms, k, result) ==
    IF k > Len(ms) THEN Returns(result)
    ELSE IF ~exists_with_suffix(ms[k][1])
         THEN codes_with_suffixes_loop2(ms, k + 1, result)
    ELSE IF ~dict_has(result, ms[k][1]) THEN Raises("KeyError")
    ELSE IF Len(dict_get(result, ms[k][1])) # 2 THEN Raises("ValueError")
    ELSE With(split_suffix(ms[k][2]), LAMBDA counts2 :
             IF counts2.raised # "" THEN Raises(counts2.raised)
             ELSE codes_with_suffixes_loop2(ms, k + 1,
                      dict_set(result, ms[k][1],
                               dict_get(result, ms[k][1]) \o counts2.value)))

\* Annotations.codes_with_suffixes(annotation1, annotation2): the dict that
\* maps codes to (icount1, ucount1, icount2, ucount2), or the exception.
\* The third loop asserts False for every match of ([\w-]+):(\d+).
codes_with_suffixes(annotation1, annotation2) ==
    With(codes_with_suffixes_loop1(findall_content(annotation1), 1, <<>>), LAMBDA r1 :
        IF r1.raised # "" THEN r1
        ELSE
    With(codes_with_suffixes_loop2(findall_content(annotation2), 1, r1.value), LAMBDA r2 :
        IF r2.raised # "" THEN r2
        ELSE IF findall_code_colon_digits_nonempty(annotation2)
             THEN Raises("AssertionError")
        ELSE r2 ))

\* annots.codes_with_iucounts as check_suffixes calls it
codes_with_iucounts(annotation1, annotation2) ==
    codes_with_suffixes(annotation1, annotation2)

(***************************************************************************)
(* CodingsComparator                                                       *)
(*                                                                         *)
(* `self` is the record of the comparator's fields msgcount, lastmsg and   *)
(* extra_line_done, together with out, the sequence of what the            *)
(* comparator has printed for the current file pair: one entry per         *)
(* _printmsg call and one per _printextra call that prints.                *)
(***************************************************************************)
\* A message text: the fixed text, and the code an f-string puts before it
Msg(code, text) == [code |-> code, text |-> text]

\* the initial  self.lastmsg = ""
NoMsg == Msg(<<>>, "")

MsgNotParallel ==
    Msg(<<>>, "Annotations should be at parallel points in the files, but are at different points here:")

MsgIncomplete ==
    Msg(<<>>, "Incomplete annotation found, skipping rest of this file pair:")

MsgDoubleIgnore ==
    Msg(<<>>, "Code '-ignorediff' should only appear in one coding, never in both as it does here:")

MsgCodeSets ==
    Msg(<<>>, "The sets of codes applied are different, please check:")

MsgIU(code) == Msg(code, ": Very different numbers of i&u gaps, please reconsider:")

MsgI(code) == Msg(code, ": Very different numbers of informativeness gaps, please reconsider:")

MsgU(code) == Msg(code, ": Very different numbers of understandability gaps, please reconsider:")

\* mutant: lastmsg is not updated
_printmsg_forgets(self, pos, msg, items) ==
    [ msgcount        |-> self.msgcount + 1,
      lastmsg         |-> self.lastmsg,
      extra_line_done |-> FALSE,
      out             |-> Append(self.out,
                                 [ call   |-> "_printmsg",
                                   pos    |-> pos,
                                   msg    |-> msg,
                                   header |-> (msg # self.lastmsg),
                                   items  |-> items ]) ]

\* CodingsComparator._printmsg: the header is printed if msg differs from
\* lastmsg; the items are printed always.
_printmsg(self, pos, msg, items) ==
    [ msgcount        |-> self.msgcount + 1,
      lastmsg         |-> msg,
      extra_line_done |-> FALSE,
      out             |-> Append(self.out,
                                 [ call   |-> "_printmsg",
                                   pos    |-> pos,
                                   msg    |-> msg,
                                   header |-> (msg # self.lastmsg),
                                   items  |-> items ]) ]

\* mutant: extra_line_done is not set
_printextra_always(self, pos, items) ==
    IF self.extra_line_done THEN self
    ELSE [ self EXCEPT
             !.out = Append(@, [ call   |-> "_printextra",
                                 pos    |-> pos,
                                 msg    |-> NoMsg,
                                 header |-> FALSE,
                                 items  |-> items ]) ]

\* CodingsComparator._printextra
_printextra(self, pos, items) ==
    IF self.extra_line_done THEN self
    ELSE [ self EXCEPT
             !.extra_line_done = TRUE,
             !.out = Append(@, [ call   |-> "_printextra",
                                 pos    |-> pos,
                                 msg    |-> NoMsg,
                                 header |-> FALSE,
                                 items  |-> items ]) ]

ItemsProblem == <<"_numbered_sentence", "_of_1", "_of_2">>

ItemsOk == <<"_numbered_sentence", "_of_1_ok", "_of_2_ok">>

\* Loop of check_suffixes over the items of the dict d, from item k on.
RECURSIVE check_suffixes_loop(_, _, _, _, _)
check_suffixes_loop(d, k, self, pos, maxcountdiff) ==
    IF k > Len(d) THEN [raised |-> "", self |-> self]
    ELSE IF Len(d[k][2]) # 4 THEN [raised |-> "ValueError", self |-> self]
    ELSE LET code   == d[k][1]
             counts == d[k][2]
             idiff  == Abs(counts[1] - counts[3]) > maxcountdiff
             udiff  == Abs(counts[2] - counts[4]) > maxcountdiff
             self2  == IF idiff /\ udiff
                       THEN _printmsg(self, pos, MsgIU(code), ItemsProblem)
                       ELSE IF idiff
                       THEN _printmsg(self, pos, MsgI(code), ItemsProblem)
                       ELSE IF udiff
                       THEN _printmsg(self, pos, MsgU(code), ItemsProblem)
                       ELSE self
         IN  check_suffixes_loop(d, k + 1, self2, pos, maxcountdiff)

\* CodingsComparator.check_suffixes: the comparator after it, or the
\* exception it raises.
check_suffixes(self, as1, as2, maxcountdiff) ==
    With(codes_with_iucounts(as1.annotation, as2.annotation), LAMBDA d :
        IF d.raised # "" THEN [raised |-> d.raised, self |-> self]
        ELSE check_suffixes_loop(d.value, 1, self, as1.sentence_idx, maxcountdiff) )

\* mutant: the comparator looks for another code
IGNORE_other == <<"-", "i", "g", "n", "o", "r", "e">>

\* IGNORE = annot.Codebook.IGNORECODE
IGNORE == IGNORECODE

\* mutant: the loop goes on after a misalignment
after_not_parallel_continue == "continue"

\* How the loop of compare_codings2 goes on after each of its branches.
after_not_parallel == "break"

after_incomplete == "break"

\* mutant: a double IGNORE ends the comparison of the file pair
after_double_ignore_break == "break"

after_double_ignore == "continue"

\* mutant: the incomplete-annotation check comes before the check for
\* non-parallel codings
compare_position_incomplete_first(self, as1, as2, maxcountdiff) ==
    With(as1.sentence_idx, LAMBDA pos :
    With(codings_of_stripped(as1.annotation, TRUE, TRUE), LAMBDA set1 :
    With(codings_of_stripped(as2.annotation, TRUE, TRUE), LAMBDA set2 :
    With(check_suffixes(self, as1, as2, maxcountdiff), LAMBDA cs :
        IF is_empty_annotation(as1.annotation) \/ is_empty_annotation(as2.annotation)
        THEN [ self |-> _printmsg(self, pos, MsgIncomplete, ItemsProblem),
               ctl  |-> after_incomplete, rule |-> 2 ]
        ELSE IF as1.sentence # as2.sentence
        THEN [ self |-> _printmsg(self, pos, MsgNotParallel, <<"_of_1", "_of_2">>),
               ctl  |-> after_not_parallel, rule |-> 1 ]
        ELSE IF IGNORE \in set1 /\ IGNORE \in set2
        THEN [ self |-> _printmsg(self, pos, MsgDoubleIgnore, ItemsProblem),
               ctl  |-> after_double_ignore, rule |-> 3 ]
        ELSE IF IGNORE \in (set1 \cup set2)
        THEN [ self |-> self, ctl |-> "continue", rule |-> 4 ]
        ELSE IF set1 # set2
        THEN [ self |-> _printmsg(self, pos, MsgCodeSets, ItemsProblem),
               ctl  |-> "continue", rule |-> 5 ]
        ELSE IF cs.raised # ""
        THEN [ self |-> cs.self, ctl |-> cs.raised, rule |-> 6 ]
        ELSE IF cs.self.msgcount - self.msgcount > 0
        THEN [ self |-> cs.self, ctl |-> "continue", rule |-> 6 ]
        ELSE [ self |-> _printextra(cs.self, pos, ItemsOk),
               ctl  |-> "continue", rule |-> 7 ] ))))

\* The body of the loop of compare_codings2 for one pair (as1, as2):
\* the comparator after it, how the loop goes on (ctl), and the number of
\* the branch taken (1 not parallel, 2 incomplete, 3 double IGNORE,
\* 4 IGNORE, 5 code sets differ, 6 counts differ, 7 none).
compare_position(self, as1, as2, maxcountdiff) ==
    With(as1.sentence_idx, LAMBDA pos :
    With(codings_of_stripped(as1.annotation, TRUE, TRUE), LAMBDA set1 :
    With(codings_of_stripped(as2.annotation, TRUE, TRUE), LAMBDA set2 :
    With(check_suffixes(self, as1, as2, maxcountdiff), LAMBDA cs :
        IF as1.sentence # as2.sentence
        THEN [ self |-> _printmsg(self, pos, MsgNotParallel, <<"_of_1", "_of_2">>),
               ctl  |-> after_not_parallel, rule |-> 1 ]
        ELSE IF is_empty_annotation(as1.annotation) \/ is_empty_annotation(as2.annotation)
        THEN [ self |-> _printmsg(self, pos, MsgIncomplete, ItemsProblem),
               ctl  |-> after_incomplete, rule |-> 2 ]
        ELSE IF IGNORE \in set1 /\ IGNORE \in set2
        THEN [ self |-> _printmsg(self, pos, MsgDoubleIgnore, ItemsProblem),
               ctl  |-> after_double_ignore, rule |-> 3 ]
        ELSE IF IGNORE \in (set1 \cup set2)
        THEN [ self |-> self, ctl |-> "continue", rule |-> 4 ]
        ELSE IF set1 # set2
        THEN [ self |-> _printmsg(self, pos, MsgCodeSets, ItemsProblem),
               ctl  |-> "continue", rule |-> 5 ]
        ELSE IF cs.raised # ""
        THEN [ self |-> cs.self, ctl |-> cs.raised, rule |-> 6 ]
        ELSE IF cs.self.msgcount - self.msgcount > 0
        THEN [ self |-> cs.self, ctl |-> "continue", rule |-> 6 ]
        ELSE [ self |-> _printextra(cs.self, pos, ItemsOk),
               ctl  |-> "continue", rule |-> 7 ] ))))

(***************************************************************************)
(* Inputs: sentences and options                                           *)
(***************************************************************************)
\* The sentence texts: they are only compared for equality, so the
\* sentences of file 1 are called "s" and those of file 2 are the same
\* text or another one, "t".
Sentences1 == {"s"}

Sentences2 == {"s", "t"}

\* The values of --maxcountdiff (default 2)
MaxCountDiffs == {2, 3}

\* The values of msgcount that the earlier file pairs of the run have left
\* in the comparator when a file pair is compared
EarlierCounts == {0, 3, 509}

\* The annotation is {{ }} with nothing or only blanks between the braces
Blank(annotation) ==
    /\ Len(annotation) >= 4
    /\ SubSeq(annotation, 1, 2) = <<"{", "{">>
    /\ SubSeq(annotation, Len(annotation) - 1, Len(annotation)) = <<"}", "}">>
    /\ \A k \in 3..(Len(annotation) - 2) : annotation[k] = " "

\* The annotation contains the ignore code as one of its codes
UsesIgnore(annotation) ==
    \E k \in 1..Len(findall_content(annotation)) :
        findall_content(annotation)[k][1] = IGNORECODE

AnnotatedSentence(sentence_idx, sentence, annotation) ==
    [sentence_idx |-> sentence_idx, sentence |-> sentence, annotation |-> annotation]

\* value of the loop variables as1, as2 outside the loop body
NoSentence == AnnotatedSentence(0, "", <<>>)

(***************************************************************************)
(* State                                                                   *)
(***************************************************************************)
VARIABLES
    pc,               \* where the comparison stands:
                      \*   idle, loop, body, end, done, raised
    maxcountdiff,     \* args.maxcountdiff
    len1, len2,       \* lengths of annotated_sentences1, annotated_sentences2
    idx,              \* number of pairs zip has yielded for this file pair
    as1, as2,         \* loop variables of compare_codings2
    msgcount,         \* self.msgcount
    lastmsg,          \* self.lastmsg
    extra_line_done,  \* self.extra_line_done
    out,              \* what the last run of the loop body printed
    rule,             \* branch the last run of the loop body took (0: none yet)
    ctl,              \* how the loop goes on after the body: continue, break,
                      \*   or the exception raised
    exitcode,         \* argument of sys.exit, -1 while the run has not exited
    what,             \* WhoWhat: the lines of the who/what file (execute)
    onlyfor,          \* args.onlyfor, "" for None (execute)
    coder_i,          \* position of the loop over sorted(what.coders)
    pair_i,           \* position of the loop over what.pairs
    emitted,          \* history: divergences emitted by the run so far
    files_left,       \* check_codings.execute: files the loops have yet to visit
    errors,           \* check_codings.execute: errors
    content,          \* report_errors: content of the file
    matches,          \* report_errors: what find_all_annotationish returned
    region_i,         \* report_errors: position of the loop over the matches
    file_errors,      \* report_errors: errors
    total,            \* history: sum of what report_errors has returned
    found,            \* history: error messages found in the files so far,
                      \*   the "too many problems" markers of report_errors
                      \*   not counted
    document,         \* content of the codebook file, as its lines
    self_codes,       \* Codebook.codes
    q_code,           \* wrong_coding_msg: code
    q_csuffix,        \* wrong_coding_msg: csuffix
    q_msg,            \* wrong_coding_msg: what it returned
    q_topic,          \* Codebook.topic: what it returned or raised
    q_counts,         \* Annotations.split_suffix: what it returned or raised
    sa_pairs,         \* compare_files: what find_all_sentence_and_annotation_pairs
                      \*   returned for the content of a file
    before,           \* history: the comparator when the body was entered
    hist              \* history of this file pair:
                      \*   problems: _printmsg calls so far
                      \*   agreed:   runs of the body that reached _printextra
                      \*             since the last _printmsg call
                      \*   extras:   _printextra calls that printed since the
                      \*             last _printmsg call
                      \*   last:     msg of the last _printmsg call
                      \*   same:     all pairs so far were as1 = as2
                      \*   plain:    same, and no annotation so far was
                      \*             blank or contained the ignore code

\* the variables of the loops of execute
exec_vars == <<what, onlyfor, coder_i, pair_i, emitted>>

\* the variables of one run of compare_codings2
loop_vars == <<len1, len2, idx, as1, as2, out, rule, ctl, before, hist>>

\* the variables of check_codings
check_vars == <<files_left, errors, content, matches, region_i, file_errors,
                total, found>>

\* the variables of the codebook and its queries
codebook_vars == <<document, self_codes, q_code, q_csuffix, q_msg, q_topic,
                   q_counts>>

\* the variables of reading the sentences of one file
read_vars == <<sa_pairs>>

vars == <<pc, maxcountdiff, len1, len2, idx, as1, as2,
          msgcount, lastmsg, extra_line_done, out, rule, ctl, before, hist,
          exitcode, what, onlyfor, coder_i, pair_i, emitted,
          files_left, errors, content, matches, region_i, file_errors,
          total, found, document, self_codes, q_code, q_csuffix, q_msg, q_topic,
          q_counts,
          sa_pairs>>

\* the comparator object before a run of the loop body
Self == [ msgcount |-> msgcount, lastmsg |-> lastmsg,
          extra_line_done |-> extra_line_done, out |-> <<>> ]

Calls(o, call) == Cardinality({k \in 1..Len(o) : o[k].call = call})

NoHist == [ problems |-> 0, agreed |-> 0, extras |-> 0, last |-> NoMsg,
            same |-> TRUE, plain |-> TRUE ]

NoBefore == [msgcount |-> 0, lastmsg |-> NoMsg, extra_line_done |-> TRUE, hist |-> NoHist]

\* The variables of a command or object that is not running
NoLoop ==
    /\ len1 = 0 /\ len2 = 0 /\ idx = 0
    /\ as1 = NoSentence /\ as2 = NoSentence
    /\ out = <<>> /\ rule = 0 /\ ctl = "" /\ before = NoBefore /\ hist = NoHist

NoExec ==
    what = <<>> /\ onlyfor = "" /\ coder_i = 0 /\ pair_i = 0 /\ emitted = 0

NoCheck ==
    /\ files_left = 0 /\ errors = 0 /\ content = <<>> /\ matches = <<>>
    /\ region_i = 0 /\ file_errors = <<>> /\ total = 0 /\ found = 0

NoRead == sa_pairs = <<>>

NoCodebook ==
    /\ document = <<>> /\ self_codes = {}
    /\ q_code = <<>> /\ q_csuffix = <<>> /\ q_msg = <<>> /\ q_topic = <<>>
    /\ q_counts = <<>>

\* The comparator before a compare_files call of the run: as __init__ made
\* it (msgcount 0, lastmsg "", extra_line_done True), or as the comparison
\* of an earlier file pair left it.
Init ==
    /\ pc = "idle"
    /\ maxcountdiff \in MaxCountDiffs
    /\ len1 = 0 /\ len2 = 0 /\ idx = 0
    /\ as1 = NoSentence /\ as2 = NoSentence
    /\ msgcount \in EarlierCounts
    /\ \/ lastmsg = NoMsg /\ extra_line_done = TRUE
       \/ /\ msgcount > 0
          /\ lastmsg \in {MsgNotParallel, MsgCodeSets, MsgU(<<"b">>)}
          /\ extra_line_done \in BOOLEAN
    /\ out = <<>>
    /\ rule = 0
    /\ ctl = ""
    /\ before = NoBefore
    /\ hist = NoHist
    /\ exitcode = -1
    /\ NoExec /\ NoCheck /\ NoCodebook /\ NoRead

\* mutant: extra_line_done is not reset for the new file pair
compare_files_no_reset ==
    /\ pc = "idle"
    /\ len1' \in 0..MaxLen
    /\ len2' \in 0..MaxLen
    /\ idx' = 0
    /\ lastmsg' = NoMsg
    /\ pc' = "loop"
    /\ UNCHANGED <<maxcountdiff, as1, as2, msgcount, extra_line_done,
                   out, rule, ctl, before, hist, exitcode>>
    /\ UNCHANGED <<exec_vars, check_vars, codebook_vars, read_vars>>

\* compare_files up to the loop of compare_codings2: the two files are read
\* (their contents are drawn position by position, when zip yields them)
\* and lastmsg and extra_line_done are reset.
compare_files ==
    /\ pc = "idle"
    /\ len1' \in 0..MaxLen
    /\ len2' \in 0..MaxLen
    /\ idx' = 0
    /\ lastmsg' = NoMsg
    /\ extra_line_done' = TRUE
    /\ pc' = "loop"
    /\ UNCHANGED <<maxcountdiff, as1, as2, msgcount, out, rule, ctl, before, hist,
                   exitcode>>
    /\ UNCHANGED <<exec_vars, check_vars, codebook_vars, read_vars>>

\* mutant: the loop goes on to the end of the longer sequence
zip_next_longest ==
    /\ pc = "loop"
    /\ idx < len1 \/ idx < len2
    /\ idx' = idx + 1
    /\ \E s1 \in Sentences1, s2 \in Sentences2,
          a1 \in AnnotationPool, a2 \in AnnotationPool :
          /\ as1' = AnnotatedSentence(idx + 1, s1, a1)
          /\ as2' = AnnotatedSentence(idx + 1, s2, a2)
    /\ pc' = "body"
    /\ UNCHANGED <<maxcountdiff, len1, len2, msgcount, lastmsg,
                   extra_line_done, out, rule, ctl, before, hist, exitcode>>
    /\ UNCHANGED <<exec_vars, check_vars, codebook_vars, read_vars>>

\* zip(annotated_sentences1, annotated_sentences2) yields the next pair
zip_next ==
    /\ pc = "loop"
    /\ idx < len1 /\ idx < len2
    /\ idx' = idx + 1
    /\ \E s1 \in Sentences1, s2 \in Sentences2,
          a1 \in AnnotationPool, a2 \in AnnotationPool :
          /\ as1' = AnnotatedSentence(idx + 1, s1, a1)
          /\ as2' = AnnotatedSentence(idx + 1, s2, a2)
    /\ pc' = "body"
    /\ UNCHANGED <<maxcountdiff, len1, len2, msgcount, lastmsg,
                   extra_line_done, out, rule, ctl, before, hist, exitcode>>
    /\ UNCHANGED <<exec_vars, check_vars, codebook_vars, read_vars>>

\* zip is exhausted: the shorter sequence has no further element
zip_stop ==
    /\ pc = "loop"
    /\ ~(idx < len1 /\ idx < len2)
    /\ pc' = "done"
    /\ UNCHANGED <<maxcountdiff, len1, len2, idx, as1, as2, msgcount, lastmsg,
                   extra_line_done, out, rule, ctl, before, hist, exitcode>>
    /\ UNCHANGED <<exec_vars, check_vars, codebook_vars, read_vars>>

\* one run of the loop body of compare_codings2, up to its continue, its
\* break, the end of the body or the exception
loop_body ==
    /\ pc = "body"
    /\ \E r \in {compare_position(Self, as1, as2, maxcountdiff)} :
       LET o == r.self.out
           n == Calls(o, "_printmsg")
       IN  /\ msgcount' = r.self.msgcount
           /\ lastmsg' = r.self.lastmsg
           /\ extra_line_done' = r.self.extra_line_done
           /\ out' = o
           /\ rule' = r.rule
           /\ ctl' = r.ctl
           /\ hist' = [ problems |-> hist.problems + n,
                        agreed   |-> IF n > 0 THEN 0
                                     ELSE IF r.rule = 7
                                          THEN hist.agreed + 1
                                          ELSE hist.agreed,
                        extras   |-> IF n > 0 THEN 0
                                     ELSE hist.extras + Calls(o, "_printextra"),
                        last     |-> IF n > 0 THEN o[Len(o)].msg ELSE hist.last,
                        same     |-> hist.same /\ as1 = as2,
                        plain    |-> /\ hist.plain /\ as1 = as2
                                     /\ ~Blank(as1.annotation)
                                     /\ ~UsesIgnore(as1.annotation) ]
    /\ before' = [ msgcount |-> msgcount, lastmsg |-> lastmsg,
                   extra_line_done |-> extra_line_done, hist |-> hist ]
    /\ pc' = "end"
    /\ UNCHANGED <<maxcountdiff, len1, len2, idx, as1, as2, exitcode>>
    /\ UNCHANGED <<exec_vars, check_vars, codebook_vars, read_vars>>

\* continue / break / the exception leaves compare_codings2; the loop
\* variables are dead from here on
loop_end ==
    /\ pc = "end"
    /\ pc' = CASE ctl = "continue" -> "loop"
               [] ctl = "break"    -> "done"
               [] OTHER            -> "raised"
    /\ as1' = NoSentence /\ as2' = NoSentence
    /\ before' = NoBefore
    /\ UNCHANGED <<maxcountdiff, len1, len2, idx, msgcount, lastmsg,
                   extra_line_done, out, rule, ctl, hist, exitcode>>
    /\ UNCHANGED <<exec_vars, check_vars, codebook_vars, read_vars>>

\* mutant: the exit code is not capped
get_exitcode_uncapped(self) == self.msgcount \div 2

\* CodingsComparator.get_exitcode
get_exitcode(self) == min(self.msgcount \div 2, 255)

\* The file pair was the last one of the run: execute ends with
\* sys.exit(comparator.get_exitcode())
sys_exit ==
    /\ pc = "done"
    /\ exitcode' = get_exitcode(Self)
    /\ pc' = "exited"
    /\ UNCHANGED <<maxcountdiff, msgcount, lastmsg, extra_line_done>>
    /\ UNCHANGED <<loop_vars, exec_vars, check_vars, codebook_vars, read_vars>>

Next ==
    \/ compare_files
    \/ zip_next
    \/ zip_stop
    \/ loop_body
    \/ loop_end
    \/ sys_exit

Spec == Init /\ [][Next]_vars

(***************************************************************************)
(* Properties of compare_codings2                                          *)
(*                                                                         *)
(* In a state with pc = "end" the loop body has just run for the pair      *)
(* (as1, as2): out is what it printed, ctl how the loop goes on, and       *)
(* before the comparator as the body found it.                             *)
(***************************************************************************)
SameSentence == as1.sentence = as2.sentence

SomeBlank == Blank(as1.annotation) \/ Blank(as2.annotation)

BothIgnore == UsesIgnore(as1.annotation) /\ UsesIgnore(as2.annotation)

SomeIgnore == UsesIgnore(as1.annotation) \/ UsesIgnore(as2.annotation)

\* The codes of an annotation without its subjective codes, as a set
CodeSet(annotation) ==
    { m[1] : m \in { mm \in Range(findall_content(annotation)) :
                       ~is_subjective_code(mm[1]) } }

CodeSetsDiffer == CodeSet(as1.annotation) # CodeSet(as2.annotation)

\* out is exactly one divergence with this message
OneProblem(msg) ==
    /\ Len(out) = 1
    /\ out[1].call = "_printmsg"
    /\ out[1].msg = msg
    /\ out[1].pos = idx
    /\ msgcount = before.msgcount + 1

\* Nothing more is compared or printed for a file pair whose comparison
\* has ended.
DoneIsFinal == pc = "done" => UNCHANGED <<idx, out, msgcount, hist>>

\* C1: at a position whose two sentence texts differ exactly one "not at
\* parallel points" divergence is emitted and the comparison of the file
\* pair stops there: the loop is left, and nothing is compared or printed
\* for the later positions.
C1_NotParallelAborts ==
    [][ /\ (pc = "end" /\ ~SameSentence)
            => (OneProblem(MsgNotParallel) /\ pc' = "done" /\ idx' = idx)
        /\ DoneIsFinal ]_vars

\* C1 witness: the comparison has stopped after a misalignment with later
\* positions left in both files.
C1_Witness ==
    /\ pc = "done" /\ rule = 1
    /\ idx < len1 /\ idx < len2
    /\ Len(out) = 1 /\ out[1].msg = MsgNotParallel

\* C2: at a position with equal sentences where at least one annotation is
\* blank exactly one "incomplete annotation" divergence is emitted and the
\* comparison of the file pair stops there.
C2_IncompleteAborts ==
    [][ /\ (pc = "end" /\ SameSentence /\ SomeBlank)
            => (OneProblem(MsgIncomplete) /\ pc' = "done" /\ idx' = idx)
        /\ DoneIsFinal ]_vars

\* C2 witness: a whitespace-only annotation of coder 1 against a non-blank
\* one has stopped the comparison before the last position.
C2_Witness ==
    /\ pc = "end" /\ SameSentence
    /\ as1.annotation = Ann(<<" ">>) /\ ~Blank(as2.annotation)
    /\ idx < len1 /\ idx < len2
    /\ OneProblem(MsgIncomplete) /\ ctl = "break"

Rule1to5Msgs == {MsgNotParallel, MsgIncomplete, MsgDoubleIgnore, MsgCodeSets}

\* C3: the cascade is short-circuit ordered.  A rule emits only if no
\* lower-numbered rule's condition holds; if one of the rules 1-5 emits,
\* that is all the body prints; the suffix counts are only evaluated (and
\* can only raise) when none of the conditions of rules 1-5 holds.
C3_ShortCircuit ==
    pc = "end" =>
        /\ \A k \in 1..Len(out) :
              out[k].call = "_printmsg" =>
                 CASE out[k].msg = MsgNotParallel  -> ~SameSentence
                   [] out[k].msg = MsgIncomplete   -> SameSentence /\ SomeBlank
                   [] out[k].msg = MsgDoubleIgnore ->
                         SameSentence /\ ~SomeBlank /\ BothIgnore
                   [] out[k].msg = MsgCodeSets     ->
                         /\ SameSentence /\ ~SomeBlank
                         /\ ~SomeIgnore /\ CodeSetsDiffer
                   [] OTHER ->
                         /\ SameSentence /\ ~SomeBlank
                         /\ ~SomeIgnore /\ ~CodeSetsDiffer
        /\ (\E k \in 1..Len(out) : out[k].msg \in Rule1to5Msgs) => Len(out) = 1
        /\ rule \in {6, 7} =>
              SameSentence /\ ~SomeBlank /\ ~SomeIgnore /\ ~CodeSetsDiffer
        /\ ctl \notin {"continue", "break"} => rule = 6
        /\ ~SameSentence => OneProblem(MsgNotParallel)
        /\ (SameSentence /\ ~SomeBlank /\ BothIgnore) => OneProblem(MsgDoubleIgnore)

\* C3 witness: differing sentences and a blank annotation have given the
\* misalignment divergence only.
C3_Witness ==
    /\ pc = "end" /\ ~SameSentence /\ SomeBlank
    /\ OneProblem(MsgNotParallel)

\* C4: equal sentences, no blank annotation and the ignore code in both
\* annotations give exactly one "should only appear in one coding"
\* divergence, and the loop continues with the next position.
C4_DoubleIgnore ==
    (pc = "end" /\ SameSentence /\ ~SomeBlank /\ BothIgnore) =>
        (OneProblem(MsgDoubleIgnore) /\ rule = 3 /\ ctl = "continue")

\* C4 witness: {{-ignorediff}} against {{-ignorediff}}
C4_Witness ==
    /\ pc = "end" /\ SameSentence
    /\ as1.annotation = Ann(IGNORECODE) /\ as2.annotation = Ann(IGNORECODE)
    /\ OneProblem(MsgDoubleIgnore) /\ ctl = "continue"

\* C5: equal sentences, no blank annotation and the ignore code in exactly
\* one annotation: nothing is printed, msgcount, lastmsg and
\* extra_line_done are as before, and the loop continues.
C5_IgnoreIsSilent ==
    (pc = "end" /\ SameSentence /\ ~SomeBlank /\ SomeIgnore /\ ~BothIgnore) =>
        /\ out = <<>>
        /\ msgcount = before.msgcount
        /\ lastmsg = before.lastmsg
        /\ extra_line_done = before.extra_line_done
        /\ ctl = "continue"

\* C5 witness: {{a}} against {{-ignorediff}} after an earlier divergence
\* of the file pair, whose header text and pending all-clear are kept.
C5_Witness ==
    /\ pc = "end" /\ SameSentence
    /\ as1.annotation = Ann(cA) /\ as2.annotation = Ann(IGNORECODE)
    /\ before.hist.problems > 0 /\ ~before.extra_line_done
    /\ out = <<>> /\ ~extra_line_done /\ lastmsg # NoMsg

\* C6: when none of rules 1-4 applies, exactly one "sets of codes applied
\* are different" divergence is emitted if the two code sets (suffixes and
\* subjective codes stripped) differ, and none if they are equal as sets,
\* whatever the order and the repetitions of the codes.
C6_CodeSets ==
    (pc = "end" /\ SameSentence /\ ~SomeBlank /\ ~SomeIgnore) =>
        IF CodeSetsDiffer
        THEN OneProblem(MsgCodeSets) /\ ctl = "continue"
        ELSE \A k \in 1..Len(out) : out[k].msg # MsgCodeSets

\* C6 witness: {{a, b:i2}} against {{b:i2, a, a}} (another order, a code
\* repeated) is no code-set divergence: the position is in agreement.
C6_Witness ==
    /\ pc = "end" /\ SameSentence
    /\ as1.annotation = Ann(cA \o Sep \o cB(<<":", "i", "2">>))
    /\ as2.annotation = Ann(cB(<<":", "i", "2">>) \o Sep \o cA \o Sep \o cA)
    /\ rule = 7 /\ msgcount = before.msgcount
    /\ \A k \in 1..Len(out) : out[k].call = "_printextra"

\* (icount, ucount) of a code in an annotation: the counts of the suffix
\* of its (last) coding
CountsOf(annotation, code) ==
    LET ms == findall_content(annotation)
        k  == CHOOSE j \in 1..Len(ms) :
                  ms[j][1] = code /\ \A l \in (j + 1)..Len(ms) : ms[l][1] # code
    IN  split_suffix(ms[k][2]).value

\* the divergences of out that name the code
ProblemsOf(code) ==
    { k \in 1..Len(out) : out[k].call = "_printmsg" /\ out[k].msg.code = code }

\* The suffix-count rule for one code: one divergence iff a count differs
\* by more than maxcountdiff, naming the kinds that do.
SuffixRuleFor(code) ==
    LET c1    == CountsOf(as1.annotation, code)
        c2    == CountsOf(as2.annotation, code)
        idiff == Abs(c1[1] - c2[1]) > maxcountdiff
        udiff == Abs(c1[2] - c2[2]) > maxcountdiff
    IN  IF idiff \/ udiff
        THEN /\ Cardinality(ProblemsOf(code)) = 1
             /\ \A k \in ProblemsOf(code) :
                   out[k].msg = IF idiff /\ udiff THEN MsgIU(code)
                                ELSE IF idiff THEN MsgI(code)
                                ELSE MsgU(code)
        ELSE ProblemsOf(code) = {}

SuffixBearing(annotation) ==
    { c \in CodeSet(annotation) : exists_with_suffix(c) }

\* rules 1-5 do not apply to the pair (as1, as2)
CodeSetsAgree ==
    SameSentence /\ ~SomeBlank /\ ~SomeIgnore /\ ~CodeSetsDiffer

\* C7: when the code sets agree, every common suffix-bearing code gets one
\* divergence iff its i-counts or its u-counts differ by more than
\* maxcountdiff, naming informativeness, understandability or both; the
\* body prints nothing else but these divergences (or the all-clear).
C7_SuffixCounts ==
    (pc = "end" /\ CodeSetsAgree) =>
        /\ \A code \in SuffixBearing(as1.annotation) : SuffixRuleFor(code)
        /\ msgcount - before.msgcount = Len(out) - Calls(out, "_printextra")

\* C7 where codes_with_suffixes does not raise: the rule holds
C7_SuffixCountsUnlessRaised ==
    (pc = "end" /\ CodeSetsAgree /\ ctl \in {"continue", "break"}) =>
        /\ \A code \in SuffixBearing(as1.annotation) : SuffixRuleFor(code)
        /\ msgcount - before.msgcount = Len(out) - Calls(out, "_printextra")
        /\ \A k \in 1..Len(out) :
              out[k].call = "_printmsg" =>
                 out[k].msg.code \in SuffixBearing(as1.annotation)
        /\ ctl = "continue"

\* {{a, b:i2}} against {{a, b:i5}} with maxcountdiff 2 gives exactly one
\* divergence, naming b and informativeness
C7_ExampleReached ==
    /\ pc = "end" /\ SameSentence /\ maxcountdiff = 2
    /\ as1.annotation = Ann(cA \o Sep \o cB(<<":", "i", "2">>))
    /\ as2.annotation = Ann(cA \o Sep \o cB(<<":", "i", "5">>))
    /\ OneProblem(MsgI(<<"b">>))

\* C8: the all-clear is printed at most once between two divergences of a
\* file pair: a position in agreement is printed iff a divergence was
\* emitted before it and no position in agreement has followed that
\* divergence yet; no other position prints an all-clear.
C8_AllClearOnce ==
    /\ hist.extras <= 1
    /\ pc = "end" =>
          /\ Calls(out, "_printextra") =
                IF rule = 7 /\ before.hist.problems > 0 /\ before.hist.agreed = 0
                THEN 1 ELSE 0
          /\ Calls(out, "_printextra") > 0 => Len(out) = 1

\* C8 witness: the second position in agreement after a divergence prints
\* nothing.
C8_Witness ==
    /\ pc = "end" /\ rule = 7
    /\ before.hist.problems > 0 /\ before.hist.agreed = 1
    /\ before.hist.extras = 1
    /\ out = <<>>

\* C9 as stated: two identical sequences give no divergence and one
\* all-clear per position.
C9_IdenticalOneAllClearEach ==
    (pc = "done" /\ hist.same /\ len1 = len2 /\ idx = len1) =>
        (hist.problems = 0 /\ hist.extras = idx)

\* C9 amended: two identical sequences in which no annotation is blank and
\* none contains the ignore code give no divergence, and no all-clear
\* either: nothing is printed and msgcount stays.
C9_IdenticalIsSilent ==
    hist.plain =>
        /\ hist.problems = 0
        /\ hist.extras = 0
        /\ pc = "end" => (out = <<>> /\ msgcount = before.msgcount)

\* C9 witness: two identical sequences of two or more positions have been
\* compared to their end.
C9_Witness ==
    /\ pc = "done" /\ hist.plain
    /\ len1 = len2 /\ idx = len1 /\ idx >= 2
    /\ rule = 7 /\ out = <<>>

\* the message of the divergence emitted before out[k]
PreviousMsg(k) == IF k > 1 THEN out[k - 1].msg ELSE before.hist.last

\* C10 as stated: the header is printed iff the divergence is of another
\* rule/category (kind of message, whatever the code) than the divergence
\* emitted before it for this file pair.
C10_HeaderPerCategory ==
    pc = "end" =>
        \A k \in 1..Len(out) :
            out[k].call = "_printmsg" =>
                (out[k].header <=> out[k].msg.text # PreviousMsg(k).text)

\* C10 amended: the header is printed iff the header text, which for a
\* suffix-count divergence begins with the code, differs from that of the
\* divergence emitted before it for this file pair; the items are printed
\* for every divergence.
C10_HeaderPerMessage ==
    pc = "end" =>
        \A k \in 1..Len(out) :
            out[k].call = "_printmsg" =>
                /\ out[k].header <=> out[k].msg # PreviousMsg(k)
                /\ Len(out[k].items) >= 2

\* C10 witness: a divergence with the header text of the one before it
\* has been printed without header, after an all-clear in between.
C10_Witness ==
    /\ pc = "end" /\ Len(out) = 1
    /\ out[1].call = "_printmsg" /\ ~out[1].header
    /\ out[1].msg = before.hist.last
    /\ before.hist.extras = 1

(***************************************************************************)
(* Properties of the divergence counter and the exit code                  *)
(***************************************************************************)
\* C11: msgcount grows by one for every divergence the loop body emits and
\* is changed by no other step (not by an all-clear, not at a suppressed
\* position, never downwards), and the exit code is msgcount // 2, capped
\* at 255, hence within 0..255.
C11_CounterAndExitCode ==
    [][ /\ msgcount' - msgcount =
              (IF pc = "body" THEN Calls(out', "_printmsg") ELSE 0)
        /\ pc' = "exited" =>
              /\ exitcode' = (IF msgcount >= 510 THEN 255 ELSE msgcount \div 2)
              /\ exitcode' \in 0..255 ]_vars

\* C11 witness: a run that has emitted more than 510 divergences, some of
\* them for its last file pair, has exited with 255.
C11_Witness ==
    /\ pc = "exited" /\ msgcount > 510 /\ hist.problems > 0 /\ exitcode = 255

(***************************************************************************)
(* execute of compare_codings: the loops over the coders and the file      *)
(* pairs of the who/what file.  A compare_files call is one step here.     *)
(***************************************************************************)
\* The loop of compare_codings2 from position k of zip(seq1, seq2) on: the
\* comparator after it and the exception that ended it, if any
RECURSIVE compare_codings2_loop(_, _, _, _, _)
compare_codings2_loop(self, seq1, seq2, k, maxcd) ==
    IF k > Len(seq1) \/ k > Len(seq2) THEN [self |-> self, raised |-> ""]
    ELSE With(compare_position(self, seq1[k], seq2[k], maxcd), LAMBDA r :
             IF r.ctl = "continue"
             THEN compare_codings2_loop(r.self, seq1, seq2, k + 1, maxcd)
             ELSE IF r.ctl = "break" THEN [self |-> r.self, raised |-> ""]
             ELSE [self |-> r.self, raised |-> r.ctl])

\* mutant: lastmsg and extra_line_done are not reset
compare_codings2_no_reset(self, seq1, seq2, maxcd) ==
    compare_codings2_loop(self, seq1, seq2, 1, maxcd)

\* CodingsComparator.compare_codings2 as one call
compare_codings2(self, seq1, seq2, maxcd) ==
    compare_codings2_loop([self EXCEPT !.lastmsg = NoMsg, !.extra_line_done = TRUE],
                          seq1, seq2, 1, maxcd)

\* The coder names of the who/what file, in sorted order, and a reservation
CoderNames == <<"anna", "bert">>

Reservation == "-res"

\* WhoWhat.is_reservation
is_reservation(codername) == codername = Reservation

\* The annotated sentences of the files of the extracts directories
FileP ==
    << AnnotatedSentence(1, "s", Ann(cA)),
       AnnotatedSentence(2, "s", Ann(cA \o Sep \o cB(<<":", "i", "2">>))) >>

FileQ ==
    << AnnotatedSentence(1, "s", Ann(cA)),
       AnnotatedSentence(2, "s", Ann(cA)) >>

FilePool == {FileP, FileQ}

\* A line of the who/what file has a citekey and columns of coder names;
\* files[k] is what find_all_sentence_and_annotation_pairs finds in the file
\* implied for column k.
WhoWhatLines ==
    [ columns : [1..2 -> {CoderNames[1], CoderNames[2], Reservation}],
      files   : [1..2 -> FilePool] ]

\* WhoWhat.coders: the names in the columns that are no reservations
coders(w) ==
    { w[l].columns[k] : l \in 1..Len(w), k \in 1..2 } \ {Reservation}

\* sorted(what.coders)
sorted(names) == SelectSeq(CoderNames, LAMBDA c : c \in names)

\* WhoWhat._build_pairs_with_A for the lines from l on: column A with each
\* other column, whether reservation or not
RECURSIVE _pairs(_, _)
_pairs(w, l) ==
    IF l > Len(w) THEN <<>>
    ELSE << [ coder1 |-> w[l].columns[1], file1 |-> w[l].files[1],
              coder2 |-> w[l].columns[2], file2 |-> w[l].files[2] ] >>
         \o _pairs(w, l + 1)

\* WhoWhat.pairs: the pairs without reservations
pairs(w) ==
    SelectSeq(_pairs(w, 1),
              LAMBDA p : ~is_reservation(p.coder1) /\ ~is_reservation(p.coder2))

ExecInit ==
    /\ pc = "coders"
    /\ maxcountdiff = 2
    /\ \E n \in 1..MaxLines : what \in [1..n -> WhoWhatLines]
    /\ onlyfor \in {"", CoderNames[1], CoderNames[2]}
    /\ coder_i = 0 /\ pair_i = 0 /\ emitted = 0
    /\ msgcount = 0 /\ lastmsg = NoMsg /\ extra_line_done = TRUE
    /\ exitcode = -1
    /\ NoLoop /\ NoCheck /\ NoCodebook /\ NoRead

\* for coder in sorted(what.coders), with the continue for --onlyfor
exec_next_coder ==
    /\ pc = "coders"
    /\ coder_i < Len(sorted(coders(what)))
    /\ coder_i' = coder_i + 1
    /\ pair_i' = 0
    /\ pc' = IF onlyfor # "" /\ onlyfor # sorted(coders(what))[coder_i + 1]
             THEN "coders" ELSE "pairs"
    /\ UNCHANGED <<maxcountdiff, msgcount, lastmsg, extra_line_done, exitcode,
                   what, onlyfor, emitted>>
    /\ UNCHANGED <<loop_vars, check_vars, codebook_vars, read_vars>>

\* for file1, coder1, file2, coder2 in what.pairs, with the compare_files
\* call for the pairs of the coder
exec_next_pair ==
    /\ pc = "pairs"
    /\ pair_i < Len(pairs(what))
    /\ pair_i' = pair_i + 1
    /\ \E p \in {pairs(what)[pair_i + 1]} :
       \E coder \in {sorted(coders(what))[coder_i]} :
          IF coder \in {p.coder1, p.coder2}
          THEN \E r \in {compare_codings2(Self, p.file1, p.file2, maxcountdiff)} :
                  /\ msgcount' = r.self.msgcount
                  /\ lastmsg' = r.self.lastmsg
                  /\ extra_line_done' = r.self.extra_line_done
                  /\ emitted' = emitted + Calls(r.self.out, "_printmsg")
                  /\ pc' = IF r.raised = "" THEN "pairs" ELSE "raised"
          ELSE UNCHANGED <<pc, msgcount, lastmsg, extra_line_done, emitted>>
    /\ UNCHANGED <<maxcountdiff, exitcode, what, onlyfor, coder_i>>
    /\ UNCHANGED <<loop_vars, check_vars, codebook_vars, read_vars>>

\* what.pairs is exhausted for this coder
exec_pairs_done ==
    /\ pc = "pairs"
    /\ pair_i = Len(pairs(what))
    /\ pc' = "coders"
    /\ UNCHANGED <<maxcountdiff, msgcount, lastmsg, extra_line_done, exitcode>>
    /\ UNCHANGED <<exec_vars, loop_vars, check_vars, codebook_vars, read_vars>>

\* sys.exit(comparator.get_exitcode()) after the last coder
exec_exit ==
    /\ pc = "coders"
    /\ coder_i = Len(sorted(coders(what)))
    /\ exitcode' = get_exitcode(Self)
    /\ pc' = "exited"
    /\ UNCHANGED <<maxcountdiff, msgcount, lastmsg, extra_line_done>>
    /\ UNCHANGED <<exec_vars, loop_vars, check_vars, codebook_vars, read_vars>>

ExecNext ==
    \/ exec_next_coder
    \/ exec_next_pair
    \/ exec_pairs_done
    \/ exec_exit

ExecSpec == ExecInit /\ [][ExecNext]_vars

\* C12 as stated: a run that emitted at least one divergence exits with a
\* code between 1 and 255, whatever the who/what file and --onlyfor are.
C12_PositiveExitCode ==
    (pc = "exited" /\ emitted > 0) => exitcode \in 1..255

\* C12, where it holds: without --onlyfor, and all pairs of two different
\* coders, every divergence is emitted twice and the exit code is positive.
C12_PositiveWhenVisitedTwice ==
    ( /\ pc = "exited" /\ emitted > 0 /\ onlyfor = ""
      /\ \A k \in 1..Len(pairs(what)) :
            pairs(what)[k].coder1 # pairs(what)[k].coder2 )
    => exitcode \in 1..255

\* C12: such a run with divergences is reached
C12_VisitedTwiceReached ==
    /\ pc = "exited" /\ emitted > 0 /\ onlyfor = ""
    /\ \A k \in 1..Len(pairs(what)) :
          pairs(what)[k].coder1 # pairs(what)[k].coder2

(***************************************************************************)
(* Annotations.find_all_annotationish and check_annotationish              *)
(*                                                                         *)
(* ANNOTATIONISH_REGEXP =                                                  *)
(*   \n(\{\{[^}]*\})\n | \n(\{[^{]*\}\})\n | \n(.+\{\{.*\}\}) | \n(\{\{.*\}\})\n *)
(* re.findall tries the alternatives in this order at every position from  *)
(* the left and goes on behind a match.  A match is here the record of its *)
(* four groups and of the position behind it; no match has end 0.          *)
(***************************************************************************)
NL == "\n"

\* The characters of the texts of the model
TextChars == CodeChars \cup {NL, "{", "}", " ", ",", ":"}

\* s has the character c at position p
has(s, p, c) == p >= 1 /\ p <= Len(s) /\ s[p] = c

Max(S) == CHOOSE m \in S : \A n \in S : n <= m

NoMatch == [groups |-> <<>>, end |-> 0]

\* \n(\{\{[^}]*\})\n  at position p: [^}]* takes all characters up to the
\* next closing brace, line breaks included
closing1_at(s, p) ==
    IF has(s, p, NL) /\ has(s, p + 1, "{") /\ has(s, p + 2, "{")
    THEN With(RunEnd(s, p + 3, TextChars \ {"}"}), LAMBDA q :
             IF has(s, q, "}") /\ has(s, q + 1, NL)
             THEN [groups |-> <<SubSeq(s, p + 1, q), <<>>, <<>>, <<>>>>, end |-> q + 2]
             ELSE NoMatch)
    ELSE NoMatch

\* \n(\{[^{]*\}\})\n  at position p: [^{]* is greedy and gives back, so the
\* match ends at the last  }}\n  before the next opening brace
opening1_at(s, p) ==
    IF has(s, p, NL) /\ has(s, p + 1, "{")
    THEN With({ r \in (p + 2)..RunEnd(s, p + 2, TextChars \ {"{"}) :
                  has(s, r, "}") /\ has(s, r + 1, "}") /\ has(s, r + 2, NL) },
              LAMBDA R :
             IF R # {}
             THEN [groups |-> <<<<>>, SubSeq(s, p + 1, Max(R) + 1), <<>>, <<>>>>,
                   end |-> Max(R) + 3]
             ELSE NoMatch)
    ELSE NoMatch

\* \n(.+\{\{.*\}\})  at position p: something, then {{, up to the last }} of
\* the line
other_at(s, p) ==
    IF has(s, p, NL)
    THEN With({ k \in (p + 1)..(RunEnd(s, p + 1, TextChars \ {NL}) - 2) :
                  /\ has(s, k, "}") /\ has(s, k + 1, "}")
                  /\ \E j \in (p + 2)..(k - 2) : has(s, j, "{") /\ has(s, j + 1, "{") },
              LAMBDA K :
             IF K # {}
             THEN [groups |-> <<<<>>, <<>>, SubSeq(s, p + 1, Max(K) + 1), <<>>>>,
                   end |-> Max(K) + 2]
             ELSE NoMatch)
    ELSE NoMatch

\* \n(\{\{.*\}\})\n  at position p: {{ at the start of the line and }} at
\* its end, the line ending with a line break
valid_at(s, p) ==
    IF has(s, p, NL) /\ has(s, p + 1, "{") /\ has(s, p + 2, "{")
    THEN With(RunEnd(s, p + 1, TextChars \ {NL}), LAMBDA eol :
             IF /\ has(s, eol, NL) /\ eol - 2 >= p + 3
                /\ has(s, eol - 2, "}") /\ has(s, eol - 1, "}")
             THEN [groups |-> <<<<>>, <<>>, <<>>, SubSeq(s, p + 1, eol - 1)>>,
                   end |-> eol + 1]
             ELSE NoMatch)
    ELSE NoMatch

\* the first alternative that matches at position p
annotationish_at(s, p) ==
    IF closing1_at(s, p).end > 0 THEN closing1_at(s, p)
    ELSE IF opening1_at(s, p).end > 0 THEN opening1_at(s, p)
    ELSE IF other_at(s, p).end > 0 THEN other_at(s, p)
    ELSE valid_at(s, p)

\* re.findall(ANNOTATIONISH_REGEXP, text) from position p on
RECURSIVE find_all_annotationish_from(_, _)
find_all_annotationish_from(text, p) ==
    IF p > Len(text) THEN <<>>
    ELSE With(annotationish_at(text, p), LAMBDA m :
             IF m.end > 0
             THEN <<m.groups>> \o find_all_annotationish_from(text, m.end)
             ELSE find_all_annotationish_from(text, p + 1))

\* Annotations.find_all_annotationish
find_all_annotationish(text) == find_all_annotationish_from(text, 1)

\* Python's None, and what  if x  takes for true
None == <<"None">>

truthy(x) == x # None /\ x # <<>>

check_annotationish_keeps_other(m) ==
    IF m[1] # <<>>
    THEN << <<"second closing brace appears to be missing", m[1]>>, None >>
    ELSE IF m[2] # <<>>
    THEN << <<"second opening brace appears to be missing", m[2]>>, None >>
    ELSE IF m[3] # <<>>
    THEN << <<"{{}} annotation must be alone on a line", m[3]>>, m[3] >>
    ELSE << None, m[4] >>

\* Annotations.check_annotationish: (msg, annotation); a message is its text
\* and the matched text put into it
check_annotationish(m) ==
    IF m[1] # <<>>
    THEN << <<"second closing brace appears to be missing", m[1]>>, None >>
    ELSE IF m[2] # <<>>
    THEN << <<"second opening brace appears to be missing", m[2]>>, None >>
    ELSE IF m[3] # <<>>
    THEN << <<"{{}} annotation must be alone on a line", m[3]>>, None >>
    ELSE << None, m[4] >>

(***************************************************************************)
(* Codebook with the allowed of a codebook document, and the check of one    *)
(* coding against it.  allowed is Codebook.allowed.                       *)
(***************************************************************************)
\* Codebook.exists_bare
Codebook_exists_bare(allowed, code) == code \in allowed

\* Codebook.exists_with_iu_suffix
Codebook_exists_with_iu_suffix(allowed, coding) ==
    (coding \o <<":", "i", "u">>) \in allowed

\* Codebook.exists_with_u_suffix
Codebook_exists_with_u_suffix(allowed, coding) ==
    (coding \o <<":", "u">>) \in allowed

\* Codebook.exists_with_suffix
Codebook_exists_with_suffix(allowed, coding) ==
    \/ Codebook_exists_with_iu_suffix(allowed, coding)
    \/ Codebook_exists_with_u_suffix(allowed, coding)

\* re.fullmatch(ALLOWED_IU_SUFFIX_REGEXP, suffix) with  i\d+|u\d+|i\d+u\d+
fullmatch_iu_suffix(suffix) ==
    /\ group_end(suffix, group_end(suffix, 1, "i"), "u") = Len(suffix) + 1
    /\ Len(suffix) >= 2

\* re.fullmatch(ALLOWED_U_SUFFIX_REGEXP, suffix) with  u\d+
fullmatch_u_suffix(suffix) ==
    group_end(suffix, 1, "u") = Len(suffix) + 1 /\ Len(suffix) >= 2

\* the texts of the error messages
MsgUnknownCode == "unknown code"

MsgNoIUSuffix == "should not have an IU suffix"

MsgIUPattern == "IU suffix does not match one of the patterns :i1, :u2, :i3u4"

MsgUPattern == "IU suffix does not match the only allowed pattern :u1"

\* Annotations.wrong_coding_msg(code, csuffix) for a non-empty code: the
\* message, as its text and the coding put into it, or None.  A csuffix
\* that is empty or only the colon leaves no suffix.
wrong_coding_msg(allowed, code, csuffix) ==
    With(IF csuffix # <<>> THEN SubSeq(csuffix, 2, Len(csuffix)) ELSE <<>>,
         LAMBDA suffix :
    With(IF suffix = <<>> /\ code[Len(code)] = "?"
         THEN SubSeq(code, 1, Len(code) - 1) ELSE code,
         LAMBDA code2 :
        IF suffix = <<>>
        THEN IF /\ ~Codebook_exists_bare(allowed, code2)
                /\ ~Codebook_exists_with_suffix(allowed, code2)
             THEN <<MsgUnknownCode, code2>>
             ELSE None
        ELSE IF Codebook_exists_with_iu_suffix(allowed, code2)
        THEN IF ~fullmatch_iu_suffix(suffix)
             THEN <<MsgIUPattern, code2 \o <<":">> \o suffix>>
             ELSE None
        ELSE IF Codebook_exists_with_u_suffix(allowed, code2)
        THEN IF ~fullmatch_u_suffix(suffix)
             THEN <<MsgUPattern, code2 \o <<":">> \o suffix>>
             ELSE None
        ELSE << IF Codebook_exists_bare(allowed, code2)
                THEN MsgNoIUSuffix ELSE MsgUnknownCode,
                code2 \o <<":">> \o suffix >> ))

(***************************************************************************)
(* check_codings: the files of one run and their error counts              *)
(***************************************************************************)
\* Largest number of lines of one checked file
MaxTextLines == 3

\* Largest number of files the loops of execute visit
MaxFiles == 2

\* What earlier files of the run may have added to errors.
EarlierErrors == {0, 253, 1000}

cQ == <<"q">>

\* The lines the checked files are made of.
LinePool ==
    { <<"s">>,                                                 \* prose
      <<>>,                                                    \* a blank line
      Ann(cA),                                                 \* {{a}}
      Ann(cQ \o <<",">> \o cQ \o <<",">> \o cQ),               \* {{q,q,q}}
      Ann(cQ \o <<",">> \o cQ \o <<",">> \o cQ \o <<",">> \o cQ),  \* {{q,q,q,q}}
      <<"{", "{", "a", "}">>,                                  \* {{a}
      <<"{", "a", "}", "}">>,                                  \* {a}}
      <<"s">> \o Ann(cA),                                      \* s{{a}}
      Ann(cA) \o <<" ", "s">> }                                \* {{a}} s

\* "\n".join(lines) + "\n": a file of lines that each end with a line break
RECURSIVE join_lines(_)
join_lines(lines) ==
    IF lines = <<>> THEN <<>>
    ELSE Head(lines) \o <<NL>> \o join_lines(Tail(lines))

\* Longer files: regions that follow the one where the errors become too
\* many, errors that become too many region by region, and a file with the
\* four kinds of region
LongFiles ==
    { join_lines(<< <<>>, Ann(cQ \o <<",">> \o cQ \o <<",">> \o cQ \o <<",">> \o cQ),
                   <<>>, <<"s">> \o Ann(cA), <<"{", "a", "}", "}">> >>),
      join_lines(<< <<"s">>, <<"s">> \o Ann(cA), <<"s">> \o Ann(cA),
                   <<"{", "{", "a", "}">>, <<>>, <<"{", "a", "}", "}">>,
                   <<>>, Ann(cQ), <<"s">> \o Ann(cA) >>),
      join_lines(<< <<"s">>, Ann(cQ \o <<",">> \o cQ \o <<",">> \o cQ), <<"s">>,
                   Ann(cQ \o <<",">> \o cQ \o <<",">> \o cQ), <<>>, Ann(cA) >>),
      join_lines(<< <<"s">>, <<"s">> \o Ann(cA), <<"{", "{", "a", "}">>, <<>>,
                   <<"{", "a", "}", "}">>, <<>>, Ann(cA) >>) }

\* A file whose last line has no line break
UnterminatedFiles == { <<"s", NL>> \o Ann(cA) }

FileTexts ==
    UNION { {join_lines(ls) : ls \in [1..n -> LinePool]} : n \in 1..MaxTextLines }
    \cup LongFiles
    \cup UnterminatedFiles

\* Annotations.split_into_codings: findall on annotation[2:-2]
split_into_codings(annotation) ==
    findall_content_from(SubSeq(annotation, 3, Len(annotation) - 2), 1)

\* Annotations.check_coding with the model's codebook: the message of the
\* CodingError it raises, or None when it returns
check_coding(code, fullsuffix) == wrong_coding_msg(codes, code, fullsuffix)

\* report_errors_within_braces: the loop over the codings from the k-th on
RECURSIVE report_errors_within_braces_from(_, _, _)
report_errors_within_braces_from(annotation, codings, k) ==
    IF k > Len(codings) THEN <<>>
    ELSE (IF check_coding(codings[k][1], codings[k][2]) # None
          THEN << <<annotation, check_coding(codings[k][1], codings[k][2])>> >>
          ELSE <<>>)
         \o report_errors_within_braces_from(annotation, codings, k + 1)

report_errors_within_braces(annotation) ==
    report_errors_within_braces_from(annotation, split_into_codings(annotation), 1)

\* "too many problems in this file, stopping.\n"
TooManyProblems == <<"too many problems in this file, stopping.">>

\* The limit of report_errors: it stops when len(errors) is larger
ErrorLimit == 3

too_many_at_limit(errs) == Len(errs) >= ErrorLimit

\* len(errors) > 3
too_many(errs) == Len(errs) > ErrorLimit

cap_errors_never(n) == n

\* min(errors, 255)
cap_errors(n) == min(n, 255)

\* The errors of one loop iteration of report_errors for the match tuple mt:
\* the message of check_annotationish, or the errors within the braces
region_errors(mt) ==
    With(check_annotationish(mt), LAMBDA r :
        IF truthy(r[1]) /\ ~truthy(r[2]) THEN <<r[1]>>
        ELSE IF truthy(r[2]) /\ ~truthy(r[1])
        THEN report_errors_within_braces(r[2])
        ELSE <<"AssertionError">>)

\* The exit code and error counter before the run: errors = 0, or what
\* earlier files of the loops have added.
CheckInit ==
    /\ pc = "files"
    /\ files_left \in 1..MaxFiles
    /\ errors \in EarlierErrors
    /\ total = errors
    /\ found = errors
    /\ content = <<>> /\ matches = <<>> /\ region_i = 0 /\ file_errors = <<>>
    /\ exitcode = -1
    /\ maxcountdiff = 0 /\ msgcount = 0 /\ lastmsg = NoMsg /\ extra_line_done = TRUE
    /\ NoLoop /\ NoExec /\ NoCodebook /\ NoRead

\* execute, for file in what.files_of(coder): the call of report_errors up
\* to its loop (the file is read, find_all_annotationish is called)
check_open_file ==
    /\ pc = "files"
    /\ files_left > 0
    /\ files_left' = files_left - 1
    /\ \E text \in FileTexts :
          /\ content' = text
          /\ matches' = find_all_annotationish(text)
    /\ region_i' = 0
    /\ file_errors' = <<>>
    /\ pc' = "regions"
    /\ UNCHANGED <<errors, total, found, exitcode>>
    /\ UNCHANGED <<maxcountdiff, msgcount, lastmsg, extra_line_done>>
    /\ UNCHANGED <<loop_vars, exec_vars, codebook_vars, read_vars>>

\* report_errors: one iteration of  for matches in find_all_annotationish,
\* with the return when there are too many problems
check_region ==
    /\ pc = "regions"
    /\ region_i < Len(matches)
    /\ region_i' = region_i + 1
    /\ \E errs \in {file_errors \o region_errors(matches[region_i + 1])} :
          IF region_errors(matches[region_i + 1]) = <<"AssertionError">>
          THEN /\ pc' = "raised"
               /\ UNCHANGED file_errors
          ELSE IF too_many(errs)
          THEN /\ file_errors' = Append(errs, TooManyProblems)
               /\ pc' = "returned"
          ELSE /\ file_errors' = errs
               /\ pc' = "regions"
    /\ UNCHANGED <<files_left, content, matches, errors, total, found, exitcode>>
    /\ UNCHANGED <<maxcountdiff, msgcount, lastmsg, extra_line_done>>
    /\ UNCHANGED <<loop_vars, exec_vars, codebook_vars, read_vars>>

\* report_errors: the loop is exhausted, report() and return len(errors)
check_file_done ==
    /\ pc = "regions"
    /\ region_i = Len(matches)
    /\ pc' = "returned"
    /\ UNCHANGED check_vars
    /\ UNCHANGED <<maxcountdiff, msgcount, lastmsg, extra_line_done, exitcode>>
    /\ UNCHANGED <<loop_vars, exec_vars, codebook_vars, read_vars>>

\* mutant: the marker is not counted
check_add_without_marker ==
    /\ pc = "returned"
    /\ errors' = errors + Len(SelectSeq(file_errors, LAMBDA e : e # TooManyProblems))
    /\ total' = total + Len(SelectSeq(file_errors, LAMBDA e : e # TooManyProblems))
    /\ found' = found + Len(SelectSeq(file_errors, LAMBDA e : e # TooManyProblems))
    /\ content' = <<>> /\ matches' = <<>> /\ region_i' = 0 /\ file_errors' = <<>>
    /\ pc' = "files"
    /\ UNCHANGED <<files_left, exitcode>>
    /\ UNCHANGED <<maxcountdiff, msgcount, lastmsg, extra_line_done>>
    /\ UNCHANGED <<loop_vars, exec_vars, codebook_vars, read_vars>>

\* execute: errors += report_errors(file, annots); the variables of
\* report_errors are gone
check_add ==
    /\ pc = "returned"
    /\ errors' = errors + Len(file_errors)
    /\ total' = total + Len(file_errors)
    /\ found' = found + Len(SelectSeq(file_errors, LAMBDA e : e # TooManyProblems))
    /\ content' = <<>> /\ matches' = <<>> /\ region_i' = 0 /\ file_errors' = <<>>
    /\ pc' = "files"
    /\ UNCHANGED <<files_left, exitcode>>
    /\ UNCHANGED <<maxcountdiff, msgcount, lastmsg, extra_line_done>>
    /\ UNCHANGED <<loop_vars, exec_vars, codebook_vars, read_vars>>

\* execute: errors = min(errors, 255); sys.exit(errors)
check_exit ==
    /\ pc = "files"
    /\ files_left = 0
    /\ errors' = cap_errors(errors)
    /\ exitcode' = cap_errors(errors)
    /\ pc' = "exited"
    /\ UNCHANGED <<files_left, content, matches, region_i, file_errors, total, found>>
    /\ UNCHANGED <<maxcountdiff, msgcount, lastmsg, extra_line_done>>
    /\ UNCHANGED <<loop_vars, exec_vars, codebook_vars, read_vars>>

CheckNext ==
    \/ check_open_file
    \/ check_region
    \/ check_file_done
    \/ check_add
    \/ check_exit

CheckSpec == CheckInit /\ [][CheckNext]_vars

\* C13: every file's error count is added to the total, and execute exits
\* with min(total, 255): with 0 exactly when no error was found in any file,
\* with 255 when the total is 1000.
C13_ExitCodeOfCheck ==
    [][ /\ errors' - errors =
               (IF pc = "returned" THEN Len(file_errors)
                ELSE IF pc' = "exited" THEN exitcode' - total ELSE 0)
        /\ pc' = "exited" =>
               /\ exitcode' = (IF total' >= 255 THEN 255 ELSE total')
               /\ exitcode' \in 0..255
               /\ (exitcode' = 0) <=> (found' = 0)
               /\ total' >= 1000 => exitcode' = 255 ]_vars

C13_Witness ==
    /\ pc = "exited" /\ total > 1000 /\ exitcode = 255
    /\ found < total /\ files_left = 0

\* The errors of the first k regions of the file, in file order
RECURSIVE C14_ErrorsOfRegions(_)
C14_ErrorsOfRegions(k) ==
    IF k = 0 THEN <<>>
    ELSE C14_ErrorsOfRegions(k - 1) \o region_errors(matches[k])

C14_Markers ==
    Cardinality({k \in 1..Len(file_errors) : file_errors[k] = TooManyProblems})

\* C14: report_errors collects the errors of the regions in file order.
\* When it returns, either the errors are more than 3: then they are those
\* of the regions up to the first one with which they became more than 3,
\* followed by exactly one "too many problems" marker, and no later region
\* was examined; or they are at most 3: then they are the errors of all
\* regions and there is no marker.
C14_StopsAfterTooMany ==
    pc = "returned" =>
        \E k \in 0..Len(matches) :
            /\ region_i = k
            /\ \A j \in 0..(k - 1) : Len(C14_ErrorsOfRegions(j)) <= 3
            /\ IF Len(C14_ErrorsOfRegions(k)) > 3
               THEN /\ file_errors = Append(C14_ErrorsOfRegions(k), TooManyProblems)
                    /\ C14_Markers = 1
               ELSE /\ k = Len(matches)
                    /\ file_errors = C14_ErrorsOfRegions(k)
                    /\ C14_Markers = 0

\* the errors became too many region by region, and regions are left
C14_Witness ==
    /\ pc = "returned" /\ C14_Markers = 1
    /\ region_i >= 3 /\ region_i < Len(matches)
    /\ Len(file_errors) = 5

\* a file with exactly 3 errors: all regions are examined, no marker
C14_WitnessThree ==
    /\ pc = "returned" /\ Len(file_errors) = 3 /\ C14_Markers = 0
    /\ region_i = Len(matches) /\ region_i >= 1

\* the diagnostics of the three malformed cases, by slot
C15_Diagnostics ==
    << "second closing brace appears to be missing",
       "second opening brace appears to be missing",
       "{{}} annotation must be alone on a line" >>

C15_Slots(mt) == {j \in 1..4 : mt[j] # <<>>}

\* C15: every match tuple of find_all_annotationish has exactly one
\* non-empty slot; check_annotationish returns for it either (message, None),
\* the message being the diagnostic of the slot, one per malformed case, or
\* (None, annotation) with the non-empty annotation of the fourth slot; a
\* malformed region gives exactly one error, and report_errors never gets to
\* its assert False.
C15_OneSlotOneOutcome ==
    /\ pc # "raised"
    /\ \A i, j \in 1..3 : C15_Diagnostics[i] = C15_Diagnostics[j] => i = j
    /\ \A k \in 1..Len(matches) :
          \E mt \in {matches[k]} : \E r \in {check_annotationish(mt)} :
             /\ Cardinality(C15_Slots(mt)) = 1
             /\ \/ /\ \E j \in 1..3 :
                        /\ C15_Slots(mt) = {j}
                        /\ r[1] = <<C15_Diagnostics[j], mt[j]>>
                   /\ r[2] = None
                   /\ region_errors(mt) = <<r[1]>>
                \/ /\ C15_Slots(mt) = {4}
                   /\ r[1] = None
                   /\ r[2] = mt[4] /\ truthy(r[2])

\* a file with all four cases, examined to its end
C15_Witness ==
    /\ pc = "returned" /\ region_i = Len(matches)
    /\ \A j \in 1..4 : \E k \in 1..Len(matches) : C15_Slots(matches[k]) = {j}
    /\ Len(file_errors) = 3

\* the lines of a text whose lines each end with a line break
RECURSIVE C16_Lines(_)
C16_Lines(text) ==
    IF text = <<>> THEN <<>>
    ELSE With(RunEnd(text, 1, TextChars \ {NL}), LAMBDA e :
            <<SubSeq(text, 1, e - 1)>> \o C16_Lines(SubSeq(text, e + 1, Len(text))))

\* line has a well-formed {{...}} and non-whitespace content before it
C16_ContentBefore(line) ==
    \E i \in 2..Len(line) :
        /\ has(line, i, "{") /\ has(line, i + 1, "{")
        /\ \E j \in (i + 2)..Len(line) : has(line, j, "}") /\ has(line, j + 1, "}")
        /\ \E k \in 1..(i - 1) : line[k] \notin SpaceChars

\* line has a well-formed {{...}} and non-whitespace content after it
C16_ContentAfter(line) ==
    \E i \in 1..Len(line) :
        /\ has(line, i, "{") /\ has(line, i + 1, "{")
        /\ \E j \in (i + 2)..Len(line) :
              /\ has(line, j, "}") /\ has(line, j + 1, "}")
              /\ \E k \in (j + 2)..Len(line) : line[k] \notin SpaceChars

\* the match tuple and classification of a misplaced annotation
C16_Misplaced(line) ==
    \E k \in 1..Len(matches) :
        /\ matches[k] = << <<>>, <<>>, line, <<>> >>
        /\ check_annotationish(matches[k])[1] =
               <<"{{}} annotation must be alone on a line", line>>

\* C16: every line of the file with a well-formed {{...}} and other
\* non-whitespace content, before or after the annotation, is among the
\* matches of find_all_annotationish in the misplaced slot and is classified
\* as 'annotation must be alone on a line'.
C16_MisplacedIsFound ==
    pc = "regions" =>
        \A n \in 1..Len(C16_Lines(content)) :
            (C16_ContentBefore(C16_Lines(content)[n]) \/ C16_ContentAfter(C16_Lines(content)[n]))
                => C16_Misplaced(C16_Lines(content)[n])

\* What the code does find: content before the annotation, on a line that
\* follows a line of prose
C16_ContentBeforeAfterProse ==
    pc = "regions" =>
        \A n \in 2..Len(C16_Lines(content)) :
            (C16_ContentBefore(C16_Lines(content)[n]) /\ C16_Lines(content)[n - 1] = <<"s">>)
                => C16_Misplaced(C16_Lines(content)[n])

C16_ContentBeforeReached ==
    /\ pc = "regions" /\ Len(matches) = 1
    /\ C16_Misplaced(<<"s">> \o Ann(cA))
    /\ Len(C16_Lines(content)) = 2
    /\ C16_Lines(content)[2] = <<"s">> \o Ann(cA)

\* line is a single opening brace, content without "{", and "}}"
C17_OpeningMissing(line) ==
    /\ Len(line) >= 3
    /\ line[1] = "{"
    /\ \A k \in 2..Len(line) : line[k] # "{"
    /\ line[Len(line) - 1] = "}" /\ line[Len(line)] = "}"

\* the match tuple and classification of a malformed opening
C17_Found(line) ==
    /\ \E k \in 1..Len(matches) : matches[k] = << <<>>, line, <<>>, <<>> >>
    /\ \A k \in 1..Len(matches) : \A j \in {1, 3, 4} : matches[k][j] # line
    /\ check_annotationish(<< <<>>, line, <<>>, <<>> >>) =
           << <<"second opening brace appears to be missing", line>>, None >>

\* C17: a line that consists of one opening brace, content without "{" and
\* a double closing brace is among the matches of find_all_annotationish, in
\* the malformed-opening slot only, and check_annotationish gives the
\* 'second opening brace appears to be missing' message and no annotation.
C17_MalformedOpeningIsFound ==
    pc = "regions" =>
        \A n \in 1..Len(C16_Lines(content)) :
            C17_OpeningMissing(C16_Lines(content)[n]) => C17_Found(C16_Lines(content)[n])

\* The same for such a line that follows a line of prose or a blank line
C17_FoundAfterProse ==
    pc = "regions" =>
        \A n \in 2..Len(C16_Lines(content)) :
            (/\ C17_OpeningMissing(C16_Lines(content)[n])
             /\ C16_Lines(content)[n - 1] \in {<<"s">>, <<>>})
                => C17_Found(C16_Lines(content)[n])

C17_FoundAfterProseReached ==
    /\ pc = "returned" /\ Len(matches) = 1
    /\ Len(C16_Lines(content)) = 2
    /\ C16_Lines(content)[1] = <<"s">>
    /\ C17_OpeningMissing(C16_Lines(content)[2])
    /\ C17_Found(C16_Lines(content)[2])
    /\ Len(file_errors) = 1

(***************************************************************************)
(* Codebook: loading the codebook file, and queries                        *)
(***************************************************************************)
\* Largest number of lines of the codebook file
MaxDocLines == 3

\* The backquote of CODEDEF_REGEXP; a TLA+ string cannot hold the character
\* itself, so the texts of the model have ^ in its place.
BQ == "^"

\* re.IGNORECASE for the letters of CODEDEF_REGEXP
lower(ch) ==
    CASE ch = "C" -> "c" [] ch = "O" -> "o" [] ch = "D" -> "d" [] ch = "E" -> "e"
      [] ch = "I" -> "i" [] ch = "U" -> "u" [] OTHER -> ch

\* the literal  code `  of CODEDEF_REGEXP at position p, case ignored
codedef_literal_at(text, p) ==
    /\ p + 5 <= Len(text)
    /\ <<lower(text[p]), lower(text[p + 1]), lower(text[p + 2]), lower(text[p + 3]),
         text[p + 4], text[p + 5]>> = <<"c", "o", "d", "e", " ", BQ>>

\* the closing backquote is not required
codedef_suffix_end_open(text, q) == q

\* End (exclusive) of (?::i?u)? at position q when the closing backquote
\* follows it, else 0
codedef_suffix_end(text, q) ==
    IF has(text, q, ":") /\ lower(text[q + 1]) = "i" /\ q + 3 <= Len(text)
       /\ lower(text[q + 2]) = "u" /\ text[q + 3] = BQ
    THEN q + 3
    ELSE IF has(text, q, ":") /\ q + 2 <= Len(text)
            /\ lower(text[q + 1]) = "u" /\ text[q + 2] = BQ
    THEN q + 2
    ELSE IF has(text, q, BQ) THEN q
    ELSE 0

\* re.findall(CODEDEF_REGEXP, codebook, flags=re.IGNORECASE) from position p
RECURSIVE findall_codedef_from(_, _)
findall_codedef_from(text, p) ==
    IF p > Len(text) THEN <<>>
    ELSE IF ~codedef_literal_at(text, p) THEN findall_codedef_from(text, p + 1)
    ELSE With(RunEnd(text, p + 6, CodeChars), LAMBDA q :
            IF q = p + 6 \/ q > Len(text) THEN findall_codedef_from(text, p + 1)
            ELSE With(codedef_suffix_end(text, q), LAMBDA e :
                    IF e = 0 THEN findall_codedef_from(text, p + 1)
                    ELSE <<SubSeq(text, p + 6, e - 1)>>
                         \o findall_codedef_from(text, e + 1)))

\* Codebook._allowed_codes: set(codes)
_allowed_codes(codebook) == Range(findall_codedef_from(codebook, 1))

\* A line of the codebook that defines a code:  code `name` , with suffix
\* definition  code `name:iu`  or  code `name:u`
CodeDef(word, name, sfx) == word \o <<" ", BQ>> \o name \o sfx \o <<BQ>>

IU == <<":", "i", "u">>

U == <<":", "u">>

\* The lines the codebook files are made of.
DocLinePool ==
    { <<"s">>,                                                  \* prose
      CodeDef(<<"c", "o", "d", "e">>, <<"a">>, <<>>),           \* code `a`
      CodeDef(<<"c", "o", "d", "e">>, <<"a">>, IU),             \* code `a:iu`
      CodeDef(<<"c", "o", "d", "e">>, <<"a">>, U),              \* code `a:u`
      CodeDef(<<"C", "o", "d", "e">>, <<"b">>, <<>>),           \* Code `b`
      CodeDef(<<"c", "o", "d", "e">>, <<"b">>, IU),             \* code `b:iu`
      CodeDef(<<"c", "o", "d", "e">>, <<"b">>, <<":", "x">>) }  \* code `b:x`

Documents ==
    UNION { [1..n -> DocLinePool] : n \in 1..MaxDocLines }

\* The codes of the queries: `c` is in no codebook
QueryCodes == { <<"a">>, <<"b">>, <<"c">> }

\* The csuffix values of the queries: what the second group of
\* ANNOTATION_CONTENT_REGEXP can be, "" when it did not take part
RawSuffixes ==
    { <<>>, <<":">>, <<":", "i", "1">>, <<":", "u", "2">>,
      <<":", "i", "1", "u", "2">>, <<":", "x">>, <<":", "i", "u">> }

CodebookInit ==
    /\ pc = "start"
    /\ document \in Documents
    /\ self_codes = {}
    /\ q_code = <<>> /\ q_csuffix = <<>> /\ q_msg = <<>> /\ q_topic = <<>>
    /\ q_counts = <<>>
    /\ exitcode = -1
    /\ maxcountdiff = 0 /\ msgcount = 0 /\ lastmsg = NoMsg /\ extra_line_done = TRUE
    /\ NoLoop /\ NoExec /\ NoCheck /\ NoRead

\* Codebook.__init__
codebook_load ==
    /\ pc = "start"
    /\ self_codes' = _allowed_codes(join_lines(document))
    /\ pc' = "loaded"
    /\ UNCHANGED <<document, q_code, q_csuffix, q_msg, q_topic, q_counts, exitcode>>
    /\ UNCHANGED <<maxcountdiff, msgcount, lastmsg, extra_line_done>>
    /\ UNCHANGED <<loop_vars, exec_vars, check_vars, read_vars>>

\* a call of Annotations.wrong_coding_msg
codebook_query ==
    /\ pc \in {"loaded", "queried"}
    /\ \E code \in QueryCodes, csuffix \in RawSuffixes :
          /\ q_code' = code
          /\ q_csuffix' = csuffix
          /\ q_msg' = wrong_coding_msg(self_codes, code, csuffix)
    /\ pc' = "queried"
    /\ UNCHANGED <<document, self_codes, q_topic, q_counts, exitcode>>
    /\ UNCHANGED <<maxcountdiff, msgcount, lastmsg, extra_line_done>>
    /\ UNCHANGED <<loop_vars, exec_vars, check_vars, read_vars>>

(***************************************************************************)
(* Codebook.topic                                                          *)
(***************************************************************************)
NONETOPIC == "none"

\* the dict the_topic
the_topic ==
    << <<<<"b", "a", "c", "k", "g", "r", "o", "u", "n", "d">>, "background">>,
       <<<<"g", "a", "p">>, "gap">>,
       <<<<"n", "e", "e", "d">>, "gap">>,
       <<<<"o", "b", "j", "e", "c", "t", "i", "v", "e">>, "objective">>,
       <<<<"d", "e", "s", "i", "g", "n">>, "design">>,
       <<<<"m", "e", "t", "h", "o", "d">>, "method">>,
       <<<<"r", "e", "s", "u", "l", "t">>, "result">>,
       <<<<"c", "l", "a", "i", "m">>, "result">>,
       <<<<"s", "u", "m", "m", "a", "r", "y">>, "summary">>,
       <<<<"c", "o", "n", "c", "l", "u", "s", "i", "o", "n">>, "conclusion">>,
       <<<<"f", "p", "o", "s", "s">>, "future">>,
       <<<<"f", "n", "e", "e", "d">>, "future">>,
       <<<<"f", "g", "a", "p">>, "future">>,
       <<<<"f", "w", "o", "r", "k">>, "future">>,
       <<<<"l", "i", "m", "i", "t", "a", "t", "i", "o", "n">>, "other">>,
       <<<<"r", "e", "s", "o", "u", "r", "c", "e", "p", "o", "i", "n", "t", "e", "r">>, "other">>,
       <<<<"X">>, "other">> >>

startswith(s, prefix) ==
    Len(s) >= Len(prefix) /\ SubSeq(s, 1, Len(prefix)) = prefix

\* Codebook.topic
RECURSIVE topic(_)
topic(code) ==
    IF startswith(code, <<"-">>) THEN Returns(NONETOPIC)
    ELSE IF startswith(code, <<"a", "-">>) THEN topic(SubSeq(code, 3, Len(code)))
    ELSE IF startswith(code, <<"h", "-">>) THEN topic(SubSeq(code, 3, Len(code)))
    ELSE IF dict_has(the_topic, code) THEN Returns(dict_get(the_topic, code))
    ELSE Raises("KeyError")

\* The codes topic is called with
TopicCodes ==
    { <<"b", "a", "c", "k", "g", "r", "o", "u", "n", "d">>,     \* background
      <<"g", "a", "p">>,                                        \* gap
      <<"n", "e", "e", "d">>,                                   \* need
      <<"X">>,                                                  \* X
      <<"c", "l", "a", "i", "m">>,                              \* claim
      <<"-", "x">>,                                             \* -x
      <<"-", "i", "g", "n", "o", "r", "e", "d", "i", "f", "f">>, \* -ignorediff
      <<"a", "-", "g", "a", "p">>,                              \* a-gap
      <<"h", "-", "n", "e", "e", "d">>,                         \* h-need
      <<"a", "-", "h", "-", "c", "l", "a", "i", "m">>,          \* a-h-claim
      <<"a", "-", "-", "x">>,                                   \* a--x
      <<"q">>,                                                  \* q
      <<"a", "-", "q">>,                                        \* a-q
      <<"h", "-">>,                                             \* h-
      <<"a">>,                                                  \* a
      <<>> }                                                    \* the empty string

\* a call of Codebook.topic
codebook_topic ==
    /\ pc \in {"start", "loaded"}
    /\ \E code \in TopicCodes :
          /\ q_code' = code
          /\ q_topic' = topic(code)
    /\ pc' = "topic"
    /\ UNCHANGED <<document, self_codes, q_csuffix, q_msg, q_counts, exitcode>>
    /\ UNCHANGED <<maxcountdiff, msgcount, lastmsg, extra_line_done>>
    /\ UNCHANGED <<loop_vars, exec_vars, check_vars, read_vars>>

\* The digit strings of the suffixes given to split_suffix
DigitStrings ==
    { <<"0">>, <<"1">>, <<"7">>, <<"1", "0">>, <<"2", "5">>, <<"0", "0", "7">> }

\* The suffixes given to split_suffix: none, the i form, the u form and the
\* iu form, each as a suffix and as a csuffix, and three malformed ones.
SplitSuffixes ==
    { colon \o body :
        colon \in {<<>>, <<":">>},
        body \in {<<>>}
            \cup { <<"i">> \o n : n \in DigitStrings }
            \cup { <<"u">> \o m : m \in DigitStrings }
            \cup { <<"i">> \o nm[1] \o <<"u">> \o nm[2] :
                       nm \in DigitStrings \X DigitStrings } }
    \cup { <<":", "x">>, <<":", "i", "u">>, <<":", "u", "2", "i", "1">> }

\* a call of Annotations.split_suffix
codebook_split_suffix ==
    /\ pc = "loaded"
    /\ \E suffix \in SplitSuffixes :
          /\ q_csuffix' = suffix
          /\ q_counts' = split_suffix(suffix)
    /\ pc' = "split"
    /\ UNCHANGED <<document, self_codes, q_code, q_msg, q_topic, exitcode>>
    /\ UNCHANGED <<maxcountdiff, msgcount, lastmsg, extra_line_done>>
    /\ UNCHANGED <<loop_vars, exec_vars, check_vars, read_vars>>

CodebookNext ==
    \/ codebook_load
    \/ codebook_query
    \/ codebook_topic
    \/ codebook_split_suffix

CodebookSpec == CodebookInit /\ [][CodebookNext]_vars

\* the keyword of a definition line, however it is capitalised in the pool
C18_Words == { <<"c", "o", "d", "e">>, <<"C", "o", "d", "e">> }

\* line defines the code name: bare, or with the suffix definition sfx
C18_DefinesAs(line, name, sfx) == \E w \in C18_Words : line = CodeDef(w, name, sfx)

\* the codebook document defines name, bare or with a suffix definition
C18_Defined(name) ==
    \E n \in 1..Len(document) : \E sfx \in {<<>>, IU, U} :
        C18_DefinesAs(document[n], name, sfx)

\* C18: for a code that the codebook document does not define, neither bare
\* nor with a suffix definition, all existence queries are false, and
\* wrong_coding_msg gives an 'unknown code' message whatever the suffix is,
\* absent or present, well-formed or not.
C18_UnknownCode ==
    (pc = "queried" /\ ~C18_Defined(q_code)) =>
        /\ ~Codebook_exists_bare(self_codes, q_code)
        /\ ~Codebook_exists_with_iu_suffix(self_codes, q_code)
        /\ ~Codebook_exists_with_u_suffix(self_codes, q_code)
        /\ ~Codebook_exists_with_suffix(self_codes, q_code)
        /\ q_msg # None
        /\ q_msg[1] = MsgUnknownCode

\* a well-formed IU suffix on a code that the document only mentions with a
\* suffix definition that is none
C18_Witness ==
    /\ pc = "queried" /\ ~C18_Defined(q_code)
    /\ q_code = <<"b">> /\ q_csuffix = <<":", "i", "1">>
    /\ \E n \in 1..Len(document) :
          document[n] = CodeDef(<<"c", "o", "d", "e">>, <<"b">>, <<":", "x">>)
    /\ self_codes # {}
    /\ q_msg[1] = MsgUnknownCode

\* the document defines name without a suffix definition only
C19_BareOnly(name) ==
    /\ \E n \in 1..Len(document) : C18_DefinesAs(document[n], name, <<>>)
    /\ \A n \in 1..Len(document) : \A sfx \in {IU, U} :
          ~C18_DefinesAs(document[n], name, sfx)

\* C19: for a code that the codebook declares without any suffix definition
\* a coding without suffix passes and a coding with any raw suffix, a colon
\* and zero or more word characters, gets an error message; and every code
\* the codebook knows passes when it is used bare.
C19_BareCodeTakesNoSuffix ==
    pc = "queried" =>
        /\ C19_BareOnly(q_code) =>
              /\ q_csuffix = <<>> => q_msg = None
              /\ q_csuffix # <<>> => q_msg # None
        /\ (C18_Defined(q_code) /\ q_csuffix = <<>>) => q_msg = None

\* What the code does: a raw suffix with at least one word character is an
\* error for such a code, a known code passes when bare
C19_NonEmptySuffixFails ==
    pc = "queried" =>
        /\ C19_BareOnly(q_code) =>
              /\ q_csuffix = <<>> => q_msg = None
              /\ Len(q_csuffix) >= 2 => (q_msg # None /\ q_msg[1] = MsgNoIUSuffix)
        /\ (C18_Defined(q_code) /\ q_csuffix = <<>>) => q_msg = None

C19_NonEmptySuffixReached ==
    /\ pc = "queried" /\ C19_BareOnly(q_code)
    /\ q_csuffix = <<":", "i", "1">>
    /\ q_msg # None /\ q_msg[1] = MsgNoIUSuffix

\* the suffix definitions with which the document defines name
C20_SuffixDefs(name) ==
    { sfx \in {<<>>, IU, U} :
        \E n \in 1..Len(document) : C18_DefinesAs(document[n], name, sfx) }

\* the codes of a codebook in which the last definition of a name is the
\* only one
C20_LastCodes ==
    { c \in { name \o sfx : name \in QueryCodes, sfx \in {<<>>, IU, U} } :
        \E name \in QueryCodes : \E sfx \in {<<>>, IU, U} :
            /\ c = name \o sfx
            /\ \E n \in 1..Len(document) :
                  /\ C18_DefinesAs(document[n], name, sfx)
                  /\ \A k \in (n + 1)..Len(document) : \A other \in {<<>>, IU, U} :
                        ~C18_DefinesAs(document[k], name, other) }

\* C20: after loading a codebook document that defines a code name more
\* than once, the codebook holds one definition of the name, the last of
\* the document, and the existence and suffix-validity answers are those of
\* the last definition alone.
C20_LastDefinitionWins ==
    /\ pc \in {"loaded", "queried"} => self_codes = C20_LastCodes
    /\ pc = "queried" =>
          /\ q_msg = wrong_coding_msg(C20_LastCodes, q_code, q_csuffix)
          /\ Codebook_exists_bare(self_codes, q_code)
                 <=> Codebook_exists_bare(C20_LastCodes, q_code)
          /\ Codebook_exists_with_suffix(self_codes, q_code)
                 <=> Codebook_exists_with_suffix(C20_LastCodes, q_code)

\* What the code does: a definition that is repeated unchanged counts once
C20_RepeatedDefinitionOnce ==
    (/\ pc \in {"loaded", "queried"}
     /\ \A name \in QueryCodes : Cardinality(C20_SuffixDefs(name)) <= 1)
        => /\ self_codes = C20_LastCodes
           /\ pc = "queried" => q_msg = wrong_coding_msg(C20_LastCodes, q_code, q_csuffix)

C20_RepeatedDefinitionReached ==
    /\ pc = "queried"
    /\ document = << CodeDef(<<"c", "o", "d", "e">>, <<"a">>, IU),
                     CodeDef(<<"c", "o", "d", "e">>, <<"a">>, IU) >>
    /\ self_codes = {<<"a">> \o IU}
    /\ q_code = <<"a">> /\ q_csuffix = <<":", "i", "1">> /\ q_msg = None

\* the topic labels of the_topic
C21_Labels == { the_topic[k][2] : k \in 1..Len(the_topic) } \cup {NONETOPIC}

\* C21: Codebook.topic never raises: for every code it returns a topic
\* label, and the 'none' label for a code that the_topic does not have, also
\* when the code is what is left after stripping a- and h- prefixes.
C21_TopicIsTotal ==
    pc = "topic" =>
        /\ q_topic.raised = ""
        /\ q_topic.value \in C21_Labels

\* What the code does: it is total on the extra codes and on the codes of
\* the_topic, with or without a- and h- prefixes
C21_TopicOfKnownCodes ==
    pc = "topic" =>
        /\ startswith(q_code, <<"-">>) => q_topic = Returns(NONETOPIC)
        /\ dict_has(the_topic, q_code) => q_topic = Returns(dict_get(the_topic, q_code))
        /\ q_topic.raised = "" => q_topic.value \in C21_Labels

C21_KnownTopicReached ==
    /\ pc = "topic" /\ q_code = <<"a", "-", "h", "-", "c", "l", "a", "i", "m">>
    /\ q_topic = Returns("result")

\* The set the claim describes, from the codings of the annotation as
\* ANNOTATION_CONTENT_REGEXP finds them
C22_Expected(annotation, strip_suffixes, strip_subjective) ==
    { (IF strip_suffixes THEN m[1] ELSE m[1] \o m[2]) :
        m \in { n \in Range(findall_content(annotation)) :
                  ~(strip_subjective /\ n[1][1] = "-" /\ n[1] # IGNORECODE) } }

C23_CharOrder ==
    <<"-">> \o Digits \o <<":", "_", "a", "b", "c", "d", "e", "f", "g", "i",
                           "n", "o", "q", "r", "s", "u", "x">>

C23_Rank(ch) == CHOOSE k \in 1..Len(C23_CharOrder) : C23_CharOrder[k] = ch

\* s < t for two strings, as Python compares them
C23_Less(s, t) ==
    \E k \in 1..(Len(t)) :
        /\ \A j \in 1..(k - 1) : j <= Len(s) /\ s[j] = t[j]
        /\ (k > Len(s) \/ (k <= Len(s) /\ C23_Rank(s[k]) < C23_Rank(t[k])))
        /\ k - 1 <= Len(s)

\* sorted(set)
RECURSIVE C23_Sorted(_)
C23_Sorted(set) ==
    IF set = {} THEN <<>>
    ELSE With(CHOOSE x \in set : \A y \in set \ {x} : C23_Less(x, y), LAMBDA x :
            <<x>> \o C23_Sorted(set \ {x}))

\* ", ".join(seq)
RECURSIVE C23_Join(_)
C23_Join(seq) ==
    IF seq = <<>> THEN <<>>
    ELSE IF Len(seq) = 1 THEN seq[1]
    ELSE seq[1] \o Sep \o C23_Join(Tail(seq))

\* the annotation text made of the sorted set
C23_Rebuilt(set) == Ann(C23_Join(C23_Sorted(set)))

\* C23: for every annotation, the set that codings_of returns is also the
\* set that codings_of returns, with the same flags, for the annotation text
\* made by sorting the set and joining its elements.
C23_RoundTrip ==
    (pc = "end" /\ idx = 1) =>
        \A a \in {as1.annotation, as2.annotation} : \A ss, sj \in BOOLEAN :
            /\ codings_of(C23_Rebuilt(codings_of(a, ss)), ss) = codings_of(a, ss)
            /\ codings_of_stripped(C23_Rebuilt(codings_of_stripped(a, ss, sj)), ss, sj)
                   = codings_of_stripped(a, ss, sj)

\* an annotation that is not its own rebuilt text: a repeated coding, and
\* the codings not in sorted order
C23_Witness ==
    /\ pc = "end" /\ idx = 1
    /\ as1.annotation = Ann(cB(<<":", "i", "2">>) \o Sep \o cA \o Sep \o cA)
    /\ C23_Rebuilt(codings_of(as1.annotation, FALSE))
           = Ann(cA \o Sep \o cB(<<":", "i", "2">>))
    /\ C23_Rebuilt(codings_of(as2.annotation, TRUE)) = Ann(cX \o Sep \o cA)
    /\ C23_Rebuilt(codings_of_stripped(as2.annotation, TRUE, TRUE)) = Ann(cA)

(***************************************************************************)
(* compare_files: the sentences and annotations of one file                *)
(***************************************************************************)
\* Largest number of lines of a file that is read for its sentences
MaxReadLines == 5

\* The lines of the files that are read for their sentences.
ReadLinePool ==
    { <<"s">>,                       \* a sentence
      <<>>,                          \* a blank line
      Ann(cA),                       \* {{a}}
      Ann(cA) \o <<" ", "s">> }      \* {{a}} s

ReadTexts ==
    UNION { {join_lines(ls) : ls \in [1..n -> ReadLinePool]} : n \in 1..MaxReadLines }

\* Smallest position from p on where s has the characters of lit, or 0
first_at(s, p, lit) ==
    With({ k \in p..(Len(s) - Len(lit) + 1) : SubSeq(s, k, k + Len(lit) - 1) = lit },
         LAMBDA found_at : IF found_at = {} THEN 0
                           ELSE CHOOSE k \in found_at : \A j \in found_at : k <= j)

\* (?<=.\n\n|\}\}\n) at position p, with re.DOTALL
lookbehind_at(s, p) ==
    /\ p >= 4
    /\ \/ s[p - 2] = NL /\ s[p - 1] = NL
       \/ SubSeq(s, p - 3, p - 1) = <<"}", "}", NL>>

\* SENTENCE_AND_ANNOTATION_PAIR_REGEXP at position p, with re.DOTALL: the
\* lazy (.*?) ends at the first  \n{{  and the lazy  .*?  at the first  }}
\* behind it
sentence_pair_at(s, p) ==
    IF ~lookbehind_at(s, p) THEN NoMatch
    ELSE With(first_at(s, p, <<NL, "{", "{">>), LAMBDA e :
            IF e = 0 THEN NoMatch
            ELSE With(first_at(s, e + 3, <<"}", "}">>), LAMBDA f :
                    IF f = 0 THEN NoMatch
                    ELSE [ groups |-> <<SubSeq(s, p, e - 1), SubSeq(s, e + 1, f + 1)>>,
                           end    |-> f + 2 ]))

\* re.findall(SENTENCE_AND_ANNOTATION_PAIR_REGEXP, content, flags=re.DOTALL)
\* from position p on
RECURSIVE findall_sentence_pairs_from(_, _)
findall_sentence_pairs_from(text, p) ==
    IF p > Len(text) + 1 THEN <<>>
    ELSE With(sentence_pair_at(text, p), LAMBDA m :
            IF m.end > 0
            THEN <<m.groups>> \o findall_sentence_pairs_from(text, m.end)
            ELSE findall_sentence_pairs_from(text, p + 1))

\* Annotations.find_all_sentence_and_annotation_pairs; the sentences and
\* annotations are sequences of characters here
find_all_sentence_and_annotation_pairs(text) ==
    With(findall_sentence_pairs_from(text, 1), LAMBDA ms :
        [ i \in 1..Len(ms) |-> AnnotatedSentence(i, ms[i][1], ms[i][2]) ])

ReadInit ==
    /\ pc = "open"
    /\ content \in ReadTexts
    /\ sa_pairs = <<>>
    /\ files_left = 0 /\ errors = 0 /\ matches = <<>>
    /\ region_i = 0 /\ file_errors = <<>> /\ total = 0 /\ found = 0
    /\ exitcode = -1
    /\ maxcountdiff = 0 /\ msgcount = 0 /\ lastmsg = NoMsg /\ extra_line_done = TRUE
    /\ NoLoop /\ NoExec /\ NoCodebook

\* compare_files: sa_pairs = annots.find_all_sentence_and_annotation_pairs(content)
read_sentences ==
    /\ pc = "open"
    /\ sa_pairs' = find_all_sentence_and_annotation_pairs(content)
    /\ pc' = "read"
    /\ UNCHANGED <<check_vars, exitcode>>
    /\ UNCHANGED <<maxcountdiff, msgcount, lastmsg, extra_line_done>>
    /\ UNCHANGED <<loop_vars, exec_vars, codebook_vars>>

ReadNext == read_sentences

ReadSpec == ReadInit /\ [][ReadNext]_vars

\* line is an annotation alone on its line
C24_IsAnnotationLine(line) ==
    /\ Len(line) >= 4
    /\ SubSeq(line, 1, 2) = <<"{", "{">>
    /\ SubSeq(line, Len(line) - 1, Len(line)) = <<"}", "}">>

\* the numbers of the annotation lines, in document order
C24_AnnotationLineNos(lines) ==
    SelectSeq([n \in 1..Len(lines) |-> n], LAMBDA n : C24_IsAnnotationLine(lines[n]))

\* the text of the lines from..to, without the line break of the last one
RECURSIVE C24_TextOf(_, _, _)
C24_TextOf(lines, from, to) ==
    IF from > to THEN <<>>
    ELSE IF from = to THEN lines[from]
    ELSE lines[from] \o <<NL>> \o C24_TextOf(lines, from + 1, to)

\* one pair per annotation line: the annotation, and as its sentence the
\* text since the start of the document or the previous annotation line
C24_Expected(lines) ==
    With(C24_AnnotationLineNos(lines), LAMBDA nos :
        [ k \in 1..Len(nos) |->
            AnnotatedSentence(k,
                              C24_TextOf(lines, (IF k = 1 THEN 1 ELSE nos[k - 1] + 1),
                                         nos[k] - 1),
                              lines[nos[k]]) ])

\* C24: find_all_sentence_and_annotation_pairs returns one AnnotatedSentence
\* per annotation line, in document order, numbered 1, 2, 3, ...; the
\* sentence of the first is the text from the start of the document up to
\* the first annotation, the sentence of a later one the text between the
\* previous annotation and its own.
C24_PairPerAnnotationLine ==
    pc = "read" => sa_pairs = C24_Expected(C16_Lines(content))

\* What the code does: the pairs are numbered 1, 2, 3, ... and their
\* annotations are annotation lines of the document or the {{..}} at the start
\* of a line, in document order, never more than there are such lines
C24_NumberedInOrder ==
    pc = "read" =>
        /\ \A k \in 1..Len(sa_pairs) :
              /\ sa_pairs[k].sentence_idx = k
              /\ sa_pairs[k].annotation = Ann(cA)
        /\ Len(sa_pairs) <=
              Cardinality({ n \in 1..Len(C16_Lines(content)) :
                              C16_Lines(content)[n] \in {Ann(cA), Ann(cA) \o <<" ", "s">>} })

C24_NumberedInOrderReached ==
    /\ pc = "read" /\ Len(sa_pairs) = 2
    /\ sa_pairs[2] = AnnotatedSentence(2, <<"s">>, Ann(cA))
    /\ Len(C24_AnnotationLineNos(C16_Lines(content))) = 3

\* the comparator as __init__ makes it
C25_Fresh == [msgcount |-> 0, lastmsg |-> NoMsg, extra_line_done |-> TRUE, out |-> <<>>]

\* what the comparison of the pair p does to a fresh comparator
C25_Job(p) == compare_codings2(C25_Fresh, p.file1, p.file2, maxcountdiff)

\* the jobs of the run for the coder: the pairs the coder is part of
C25_JobsOf(coder) ==
    SelectSeq(pairs(what), LAMBDA p : coder \in {p.coder1, p.coder2})

RECURSIVE C25_SumOfJobs(_)
C25_SumOfJobs(jobs) ==
    IF jobs = <<>> THEN 0
    ELSE C25_Job(Head(jobs)).self.msgcount + C25_SumOfJobs(Tail(jobs))

\* all jobs of the run, coder by coder
RECURSIVE C25_AllJobs(_)
C25_AllJobs(names) ==
    IF names = <<>> THEN <<>>
    ELSE (IF onlyfor # "" /\ onlyfor # Head(names) THEN <<>>
          ELSE C25_JobsOf(Head(names)))
         \o C25_AllJobs(Tail(names))

\* C25: what the comparison of a file pair prints (divergences, headers,
\* all-clear lines) and what it adds to msgcount is what it prints and adds
\* for a fresh comparator, whatever pairs the comparator has compared
\* before; the final msgcount is the sum of the counts of the jobs.
C25_JobsAreIndependent ==
    /\ (pc = "pairs" /\ pair_i < Len(pairs(what))) =>
          \E p \in {pairs(what)[pair_i + 1]} :
          \E r \in {compare_codings2(Self, p.file1, p.file2, maxcountdiff)} :
             /\ r.self.out = C25_Job(p).self.out
             /\ r.self.msgcount - msgcount = C25_Job(p).self.msgcount
             /\ r.raised = C25_Job(p).raised
    /\ pc = "exited" => msgcount = C25_SumOfJobs(C25_AllJobs(sorted(coders(what))))

\* a job with a divergence for a comparator that an earlier job has left
\* with a header and without the all-clear line
C25_Witness ==
    /\ pc = "pairs" /\ pair_i < Len(pairs(what))
    /\ msgcount > 0 /\ lastmsg = MsgCodeSets /\ ~extra_line_done
    /\ C25_Job(pairs(what)[pair_i + 1]).self.msgcount > 0
    /\ sorted(coders(what))[coder_i] \in
           {pairs(what)[pair_i + 1].coder1, pairs(what)[pair_i + 1].coder2}

\* C26: the loop of compare_codings2 visits the positions 1, 2, ... up to
\* the length of the shorter sequence and no further one; when it ends
\* there, nothing is printed and nothing is counted, whether or not the
\* lengths differ.
C26_PositionsOfTheShorter ==
    [][ /\ pc' = "body" =>
            /\ idx' = idx + 1
            /\ idx' <= len1 /\ idx' <= len2
            /\ as1'.sentence_idx = idx' /\ as2'.sentence_idx = idx'
        /\ (pc = "loop" /\ pc' = "done") =>
            /\ idx = min(len1, len2)
            /\ msgcount' = msgcount
            /\ out' = out
            /\ lastmsg' = lastmsg
            /\ extra_line_done' = extra_line_done ]_vars

\* the loop has ended at the end of the shorter sequence, after at least
\* one position, with positions of the longer one left over
C26_Witness ==
    /\ pc = "done" /\ ctl = "continue"
    /\ len1 # len2
    /\ idx = min(len1, len2) /\ idx > 0
    /\ hist.problems = 0

\* the numbers of the suffixes given to split_suffix
C27_Numbers == {0, 1, 7, 10, 25}

\* the decimal digits of n
RECURSIVE C27_Str(_)
C27_Str(n) ==
    IF n < 10 THEN <<Digits[n + 1]>>
    ELSE C27_Str(n \div 10) \o <<Digits[(n % 10) + 1]>>

\* the codes of the codebook that take a suffix
C27_SuffixCodes == { code \in QueryCodes : Codebook_exists_with_suffix(self_codes, code) }

\* C27: split_suffix returns (n, 0) for i<n>, (0, m) for u<m>, (n, m) for
\* i<n>u<m> and (0, 0) for no suffix, with or without the colon in front;
\* for a csuffix that wrong_coding_msg accepts for a code that takes a
\* suffix it returns a pair of non-negative integers.
C27_SplitSuffix ==
    pc = "split" =>
        /\ \A colon \in {<<>>, <<":">>} :
            /\ q_csuffix = colon => q_counts = Returns(<<0, 0>>)
            /\ \A n \in C27_Numbers :
                /\ q_csuffix = colon \o <<"i">> \o C27_Str(n)
                      => q_counts = Returns(<<n, 0>>)
                /\ q_csuffix = colon \o <<"u">> \o C27_Str(n)
                      => q_counts = Returns(<<0, n>>)
                /\ \A m \in C27_Numbers :
                      q_csuffix = colon \o <<"i">> \o C27_Str(n) \o <<"u">> \o C27_Str(m)
                      => q_counts = Returns(<<n, m>>)
        /\ \A code \in C27_SuffixCodes :
              wrong_coding_msg(self_codes, code, q_csuffix) = None
              => /\ q_counts.raised = ""
                 /\ Len(q_counts.value) = 2
                 /\ q_counts.value[1] \in Nat /\ q_counts.value[2] \in Nat

\* split_suffix has returned for the iu form with two-digit numbers, which
\* wrong_coding_msg accepts for a code of the codebook
C27_Witness ==
    /\ pc = "split"
    /\ q_csuffix = <<":", "i", "1", "0", "u", "2", "5">>
    /\ q_counts = Returns(<<10, 25>>)
    /\ \E code \in C27_SuffixCodes :
          wrong_coding_msg(self_codes, code, q_csuffix) = None

\* the annotation passes the checks of check_codings for one annotation
C28_Valid(annotation) == report_errors_within_braces(annotation) = <<>>

\* the pair (as1, as2) reaches the check of the suffix counts
C28_ReachesSuffixRule ==
    /\ pc = "end" /\ idx = 1 /\ CodeSetsAgree
    /\ C28_Valid(as1.annotation) /\ C28_Valid(as2.annotation)

\* codes_with_suffixes returns a dict that has four counts for every code
\* with a suffix of the two annotations
C28_Returned ==
    \E d \in {codes_with_suffixes(as1.annotation, as2.annotation)} :
        /\ d.raised = ""
        /\ \A code \in SuffixBearing(as1.annotation) \cup SuffixBearing(as2.annotation) :
              /\ dict_has(d.value, code)
              /\ Len(dict_get(d.value, code)) = 4
              /\ \A k \in 1..4 : dict_get(d.value, code)[k] \in Nat

\* the codes that the annotation lists more than once
C28_Repeated(annotation) ==
    { findall_content(annotation)[k][1] : k \in
        { j \in 1..Len(findall_content(annotation)) :
            \E i \in 1..(j - 1) :
                findall_content(annotation)[i][1] = findall_content(annotation)[j][1] } }

\* C28: for two annotations that reach the check of the suffix counts,
\* codes_with_suffixes returns and has four counts for every code with a
\* suffix, also when such a code is listed more than once in an annotation
\* and when one side only has a subjective code; check_suffixes has not
\* raised.
C28_FourCounts ==
    C28_ReachesSuffixRule => (C28_Returned /\ ctl = "continue")

\* C28 for a second annotation that lists no code with a suffix twice
C28_FourCountsUnlessRepeated ==
    ( /\ C28_ReachesSuffixRule
      /\ \A code \in C28_Repeated(as2.annotation) : ~exists_with_suffix(code) )
    => (C28_Returned /\ ctl = "continue")

\* the suffix counts were compared for a first annotation that lists b
\* twice, and for a pair with a subjective code on one side
C28_RepeatedInFirstReached ==
    /\ C28_ReachesSuffixRule
    /\ <<"b">> \in C28_Repeated(as1.annotation)
    /\ C28_Returned

\* the error messages that report_errors has made for the regions it examined
C29_RealErrors == Len(C14_ErrorsOfRegions(region_i))

\* C29: what report_errors returns, and execute adds to errors, is the
\* number of error messages of the file when the errors did not become too
\* many, and that number plus one for the marker when they did; the errors
\* of the annotation with which they become too many are all counted, and
\* a file with the marker adds at least 5.
C29_ReturnedCount ==
    [][ pc = "returned" =>
          /\ errors' - errors = Len(file_errors)
          /\ IF C14_Markers = 0
             THEN /\ Len(file_errors) = C29_RealErrors
                  /\ region_i = Len(matches)
             ELSE /\ Len(file_errors) = C29_RealErrors + 1
                  /\ file_errors[Len(file_errors)] = TooManyProblems
                  /\ region_i >= 1
                  /\ C29_RealErrors =
                        Len(C14_ErrorsOfRegions(region_i - 1))
                        + Len(region_errors(matches[region_i]))
                  /\ Len(C14_ErrorsOfRegions(region_i - 1)) <= 3
                  /\ errors' - errors >= 5 ]_vars

\* a file with the marker has added 7 to errors: 3 errors, then an
\* annotation with 3 more
C29_Witness ==
    /\ pc = "returned" /\ C14_Markers = 1
    /\ Len(file_errors) = 7
    /\ Len(C14_ErrorsOfRegions(region_i - 1)) = 3

\* a file with the marker has added 5
C29_WitnessFive ==
    /\ pc = "returned" /\ C14_Markers = 1 /\ Len(file_errors) = 5
    /\ region_i = 1

\* line has one of the four shapes of ANNOTATIONISH_REGEXP:
\*   {{...}  without a further closing brace,  {...}}  without a further
\*   opening brace,  something before a {{...}},  {{...}}
C30_Annotationish(line) ==
    \/ /\ Len(line) >= 3 /\ line[1] = "{" /\ line[2] = "{" /\ line[Len(line)] = "}"
       /\ \A k \in 3..(Len(line) - 1) : line[k] # "}"
    \/ C17_OpeningMissing(line)
    \/ \E i \in 2..Len(line) :
          /\ has(line, i, "{") /\ has(line, i + 1, "{")
          /\ \E j \in (i + 2)..Len(line) : has(line, j, "}") /\ has(line, j + 1, "}")
    \/ /\ Len(line) >= 4 /\ line[1] = "{" /\ line[2] = "{"
       /\ line[Len(line) - 1] = "}" /\ line[Len(line)] = "}"

\* the numbers of the lines of the file that are annotationish
C30_AnnotationishLines ==
    { n \in 1..Len(C16_Lines(content)) : C30_Annotationish(C16_Lines(content)[n]) }

\* a match of find_all_annotationish is the line, or for the third shape the
\* line up to a }}
C30_Matched(line) ==
    \E k \in 1..Len(matches) : \E j \in 1..4 :
        /\ matches[k][j] # <<>>
        /\ Len(matches[k][j]) <= Len(line)
        /\ matches[k][j] = SubSeq(line, 1, Len(matches[k][j]))
        /\ j # 3 => matches[k][j] = line

\* C30: find_all_annotationish has one match for every annotationish line
\* of the file, whatever its neighbours are: also for a line that follows a
\* matched line, for the first line, and for a last line without a line
\* break.
C30_OneMatchPerLine ==
    pc = "regions" =>
        /\ \A n \in C30_AnnotationishLines : C30_Matched(C16_Lines(content)[n])
        /\ Len(matches) = Cardinality(C30_AnnotationishLines)

\* the text has the line break that ends its line n
C30_Terminated(n) ==
    Len(join_lines(SubSeq(C16_Lines(content), 1, n))) <= Len(content)

\* What the code does find: an annotationish line that follows a line of
\* prose or a blank line and ends with a line break
C30_MatchAfterUnmatchedLine ==
    pc = "regions" =>
        \A n \in C30_AnnotationishLines :
            (/\ n >= 2 /\ C16_Lines(content)[n - 1] \in {<<"s">>, <<>>}
             /\ C30_Terminated(n))
                => C30_Matched(C16_Lines(content)[n])

\* a file of prose lines and annotationish lines in turn, all matched
C30_MatchAfterUnmatchedLineReached ==
    /\ pc = "regions" /\ Len(matches) = 3
    /\ C30_AnnotationishLines = {2, 4, 6}
    /\ \A n \in {2, 4, 6} : C30_Matched(C16_Lines(content)[n])

====
